---- MODULE Spec2Model ----
(***************************************************************************)
(* A model of the shell parser of package syntax (src/syntax/parser.go).   *)
(*                                                                         *)
(* The parser is a recursive-descent program over one mutable object, the  *)
(* parser instance p.  The model runs it as a machine with an explicit     *)
(* call stack: every method of parser.go that reads tokens is one action,  *)
(* which executes the method's code from one call it makes to the next.    *)
(* A frame of the stack holds the method's name (fn), the place it has     *)
(* reached (pc) and its local variables; rv holds the value returned by    *)
(* the call that ended last.  Methods that read no token (errPass,         *)
(* preNested, arithmOpLevel, ...) are operators.                           *)
(*                                                                         *)
(* The lexer (next and the helpers it uses), the token names and the       *)
(* position helpers of the AST are not part of parser.go; they are         *)
(* modelled after the specification, sections 4.1 and 6.                   *)
(*                                                                         *)
(* Source bytes are one-character strings, source text is a sequence of    *)
(* them.  Positions are 1-based byte offsets (Pos), p.npos is 0-based.     *)
(***************************************************************************)
EXTENDS Integers, Sequences, FiniteSets, TLC

VARIABLES
    p,      \* the pooled parser instance (type parser, parser.go:53-87)
    calls,  \* call stack of the Parse call in progress
    rv,     \* value returned by the last completed call
    todo,   \* the Parse calls still to make: <<[src, name, mode], ...>>
    rets    \* what the completed Parse calls returned: <<[f, err], ...>>

vars == <<p, calls, rv, todo, rets>>

---------------------------------------------------------------------------
(* Text helpers.                                                           *)

\* the zero byte: what a read past the end of the source gives
NUL == ""

\* src[i] of Go (0-based)
byteAt(src, i) == IF i >= 0 /\ i < Len(src) THEN src[i + 1] ELSE NUL

\* src[a:b] of Go
Slice(src, a, b) == IF b > a THEN SubSeq(src, a + 1, b) ELSE <<>>

\* src[a:] of Go
From(src, a) == Slice(src, a, Len(src))

Min2(a, b) == IF a < b THEN a ELSE b

\* the first index i in a..Len(src)-1 whose byte is in set S, else Len(src)
RECURSIVE IndexIn(_, _, _)
IndexIn(src, a, S) ==
    IF a >= Len(src) THEN Len(src)
    ELSE IF src[a + 1] \in S THEN a
    ELSE IndexIn(src, a + 1, S)

\* the offsets just past every newline of src[a:b]
RECURSIVE NewLines(_, _, _)
NewLines(src, a, b) ==
    IF a >= b \/ a >= Len(src) THEN <<>>
    ELSE IF src[a + 1] = "\n" THEN <<a + 1>> \o NewLines(src, a + 1, b)
    ELSE NewLines(src, a + 1, b)

\* whether src[a:] starts with the bytes w
HasPrefixAt(src, a, w) == a + Len(w) <= Len(src) /\ Slice(src, a, a + Len(w)) = w

Lower == {"a", "b", "c", "d", "e", "f", "g", "h", "i", "j", "k", "l", "m",
          "n", "o", "p", "q", "r", "s", "t", "u", "v", "w", "x", "y", "z"}
Upper == {"A", "B", "C", "D", "E", "F", "G", "H", "I", "J", "K", "L", "M",
          "N", "O", "P", "Q", "R", "S", "T", "U", "V", "W", "X", "Y", "Z"}
Digit == {"0", "1", "2", "3", "4", "5", "6", "7", "8", "9"}

---------------------------------------------------------------------------
(* Errors.  ParseError (parser.go:407-412) carries a Position, the file    *)
(* name and the text; the text is kept as its format and the list of its   *)
(* arguments, each one a string.                                           *)

NoErr == [Offset |-> -1, Line |-> 0, Column |-> 0, Filename |-> <<>>,
          Text |-> "", Args |-> <<>>]

\* File.Position: the line is the last one that starts before pos
Position(Lines, pos) ==
    LET i == CHOOSE k \in 0..Len(Lines) :
                 /\ k > 0 => Lines[k] < pos
                 /\ \A j \in (k + 1)..Len(Lines) : Lines[j] >= pos
    IN  IF i = 0 THEN [Offset |-> pos - 1, Line |-> 0, Column |-> 0]
        ELSE [Offset |-> pos - 1, Line |-> i, Column |-> pos - Lines[i]]

\* errPass without its test of p.err: the last error is the one kept
errPassAlways(ps, err) == [ps EXCEPT !.err = err, !.npos = Len(ps.src), !.tok = "_EOF"]

\* errPass that records the error and leaves the token and the cursor
errPassNoEOF(ps, err) == IF ps.err = NoErr THEN [ps EXCEPT !.err = err] ELSE ps

\* func (p *parser) errPass(err error)
errPass(ps, err) ==
    IF ps.err = NoErr
    THEN [ps EXCEPT !.err = err, !.npos = Len(ps.src), !.tok = "_EOF"]
    ELSE ps

\* func (p *parser) posErr(pos Pos, format string, a ...interface{})
posErr(ps, pos, text, args) ==
    LET at == Position(ps.f.Lines, pos)
    IN  errPass(ps, [Offset |-> at.Offset, Line |-> at.Line, Column |-> at.Column,
                    Filename |-> ps.f.Name, Text |-> text, Args |-> args])

\* func (p *parser) curErr(format string, a ...interface{})
curErr(ps, text, args) == posErr(ps, ps.pos, text, args)

\* the decimal digits of a number, as %d writes them
RECURSIVE Itoa(_)
Itoa(n) ==
    LET d == <<"0", "1", "2", "3", "4", "5", "6", "7", "8", "9">>[(n % 10) + 1]
    IN  IF n < 10 THEN <<d>> ELSE Append(Itoa(n \div 10), d)

\* Error() that never writes the file name
ErrorNoName(e) ==
    Itoa(e.Line) \o <<":">> \o Itoa(e.Column) \o <<":", " ">> \o <<<<e.Text, e.Args>>>>

\* func (e *ParseError) Error() string: the bytes of the prefix, of the line
\* and of the column, and the text as its last element
Error(e) ==
    LET prefix == IF e.Filename # <<>> THEN e.Filename \o <<":">> ELSE <<>>
    IN  prefix \o Itoa(e.Line) \o <<":">> \o Itoa(e.Column) \o <<":", " ">>
            \o <<<<e.Text, e.Args>>>>

---------------------------------------------------------------------------
(* Tokens and lexical modes.  The token names are the ones parser.go uses. *)

\* the backquote byte (a TLA+ string cannot hold the character itself)
BQ == "BQ"

\* token.String(): the source text of a token
TokStr(tok) ==
    CASE tok = "_EOF" -> <<"E", "O", "F">>
      [] tok = "_Lit" -> <<"l", "i", "t">>
      [] tok = "_LitWord" -> <<"w", "o", "r", "d">>
      [] tok = "illegalTok" -> <<"I", "L", "L", "E", "G", "A", "L">>
      [] tok = "sglQuote" -> <<"'">>
      [] tok = "dblQuote" -> <<"\"">>
      [] tok = "bckQuote" -> <<BQ>>
      [] tok = "and" -> <<"&">>
      [] tok = "andAnd" -> <<"&", "&">>
      [] tok = "or" -> <<"|">>
      [] tok = "orOr" -> <<"|", "|">>
      [] tok = "pipeAll" -> <<"|", "&">>
      [] tok = "dollar" -> <<"$">>
      [] tok = "dollSglQuote" -> <<"$", "'">>
      [] tok = "dollDblQuote" -> <<"$", "\"">>
      [] tok = "dollBrace" -> <<"$", "{">>
      [] tok = "dollBrack" -> <<"$", "[">>
      [] tok = "dollParen" -> <<"$", "(">>
      [] tok = "dollDblParen" -> <<"$", "(", "(">>
      [] tok = "leftBrack" -> <<"[">>
      [] tok = "rightBrack" -> <<"]">>
      [] tok = "leftParen" -> <<"(">>
      [] tok = "dblLeftParen" -> <<"(", "(">>
      [] tok = "rightParen" -> <<")">>
      [] tok = "dblRightParen" -> <<")", ")">>
      [] tok = "rightBrace" -> <<"}">>
      [] tok = "semicolon" -> <<";">>
      [] tok = "dblSemicolon" -> <<";", ";">>
      [] tok = "semiFall" -> <<";", "&">>
      [] tok = "dblSemiFall" -> <<";", ";", "&">>
      [] tok = "rdrIn" -> <<"<">>
      [] tok = "rdrOut" -> <<">">>
      [] tok = "appOut" -> <<">", ">">>
      [] tok = "hdoc" -> <<"<", "<">>
      [] tok = "dashHdoc" -> <<"<", "<", "-">>
      [] tok = "wordHdoc" -> <<"<", "<", "<">>
      [] tok = "rdrInOut" -> <<"<", ">">>
      [] tok = "dplIn" -> <<"<", "&">>
      [] tok = "dplOut" -> <<">", "&">>
      [] tok = "clbOut" -> <<">", "|">>
      [] tok = "rdrAll" -> <<"&", ">">>
      [] tok = "appAll" -> <<"&", ">", ">">>
      [] tok = "cmdIn" -> <<"<", "(">>
      [] tok = "cmdOut" -> <<">", "(">>
      [] tok = "globQuest" -> <<"?", "(">>
      [] tok = "globStar" -> <<"*", "(">>
      [] tok = "globPlus" -> <<"+", "(">>
      [] tok = "globAt" -> <<"@", "(">>
      [] tok = "globExcl" -> <<"!", "(">>
      [] tok = "plus" -> <<"+">>
      [] tok = "minus" -> <<"-">>
      [] tok = "star" -> <<"*">>
      [] tok = "slash" -> <<"/">>
      [] tok = "perc" -> <<"%">>
      [] tok = "power" -> <<"*", "*">>
      [] tok = "caret" -> <<"^">>
      [] tok = "exclMark" -> <<"!">>
      [] tok = "addAdd" -> <<"+", "+">>
      [] tok = "subSub" -> <<"-", "-">>
      [] tok = "assgn" -> <<"=">>
      [] tok = "equal" -> <<"=", "=">>
      [] tok = "nequal" -> <<"!", "=">>
      [] tok = "lequal" -> <<"<", "=">>
      [] tok = "gequal" -> <<">", "=">>
      [] tok = "addAssgn" -> <<"+", "=">>
      [] tok = "subAssgn" -> <<"-", "=">>
      [] tok = "mulAssgn" -> <<"*", "=">>
      [] tok = "quoAssgn" -> <<"/", "=">>
      [] tok = "remAssgn" -> <<"%", "=">>
      [] tok = "andAssgn" -> <<"&", "=">>
      [] tok = "orAssgn" -> <<"|", "=">>
      [] tok = "xorAssgn" -> <<"^", "=">>
      [] tok = "shlAssgn" -> <<"<", "<", "=">>
      [] tok = "shrAssgn" -> <<">", ">", "=">>
      [] tok = "comma" -> <<",">>
      [] tok = "tsExists" -> <<"-", "e">>
      [] tok = "tsRegFile" -> <<"-", "f">>
      [] tok = "tsDirect" -> <<"-", "d">>
      [] tok = "tsCharSp" -> <<"-", "c">>
      [] tok = "tsBlckSp" -> <<"-", "b">>
      [] tok = "tsNmPipe" -> <<"-", "p">>
      [] tok = "tsSocket" -> <<"-", "S">>
      [] tok = "tsSmbLink" -> <<"-", "L">>
      [] tok = "tsGIDSet" -> <<"-", "g">>
      [] tok = "tsUIDSet" -> <<"-", "u">>
      [] tok = "tsRead" -> <<"-", "r">>
      [] tok = "tsWrite" -> <<"-", "w">>
      [] tok = "tsExec" -> <<"-", "x">>
      [] tok = "tsNoEmpty" -> <<"-", "s">>
      [] tok = "tsFdTerm" -> <<"-", "t">>
      [] tok = "tsEmpStr" -> <<"-", "z">>
      [] tok = "tsNempStr" -> <<"-", "n">>
      [] tok = "tsOptSet" -> <<"-", "o">>
      [] tok = "tsVarSet" -> <<"-", "v">>
      [] tok = "tsRefVar" -> <<"-", "R">>
      [] tok = "tsReMatch" -> <<"=", "~">>
      [] tok = "tsNewer" -> <<"-", "n", "t">>
      [] tok = "tsOlder" -> <<"-", "o", "t">>
      [] tok = "tsDevIno" -> <<"-", "e", "f">>
      [] tok = "tsEql" -> <<"-", "e", "q">>
      [] tok = "tsNeq" -> <<"-", "n", "e">>
      [] tok = "tsLeq" -> <<"-", "l", "e">>
      [] tok = "tsGeq" -> <<"-", "g", "e">>
      [] tok = "tsLss" -> <<"-", "l", "t">>
      [] tok = "tsGtr" -> <<"-", "g", "t">>
      [] tok = "quest" -> <<"?">>
      [] tok = "colon" -> <<":">>
      [] tok = "hash" -> <<"#">>
      [] tok = "dblHash" -> <<"#", "#">>
      [] tok = "dblPerc" -> <<"%", "%">>
      [] tok = "dblSlash" -> <<"/", "/">>
      [] tok = "dblCaret" -> <<"^", "^">>
      [] tok = "dblComma" -> <<",", ",">>
      [] tok = "colPlus" -> <<":", "+">>
      [] tok = "colMinus" -> <<":", "-">>
      [] tok = "colQuest" -> <<":", "?">>
      [] tok = "colAssgn" -> <<":", "=">>
      [] OTHER -> <<"?", "?">>

\* the quoteState sets of parser.go:174-196
allRegTokens == {"noState", "subCmd", "subCmdBckquo", "hdocWord", "switchCase"}
allParamArith == {"paramExpInd", "paramExpOff", "paramExpLen"}
allArithmExpr == {"arithmExpr", "arithmExprLet", "arithmExprCmd",
                  "arithmExprBrack"} \cup allParamArith
allRbrack == {"arithmExprBrack", "paramExpInd"}
allParamReg == {"paramExpName"} \cup allParamArith
allParamExp == allParamReg \cup {"paramExpRepl", "paramExpExp"}

\* bash() that holds in every mode
bashAlways(ps) == TRUE

\* func (p *parser) bash() bool
bash(ps) == ~ps.mode.PosixConformant

\* bytes that form or start a token
regOps(b) == b \in {";", "\"", "'", "(", ")", "$", "|", "&", ">", "<", BQ}

\* tokenize these inside parameter expansions
paramOps(b) == b \in {"}", "#", ":", "-", "+", "=", "?", "%", "[", "]", "/", "^", ","}

\* tokenize these inside arithmetic expansions
arithmOps(b) == b \in {"+", "-", "!", "*", "/", "%", "(", ")", "^", "<", ">",
                       ":", "=", ",", "?", "|", "&", "]"}

\* the bytes that end a word (specification 4.1, "Word-break bytes")
wordBreak(b) == b \in {" ", "\t", "\n", ";", "&", ">", "<", "|", "(", ")", "\r"}

\* tok := t; npos += n
Tok(ps, t, n) == [ps EXCEPT !.tok = t, !.npos = ps.npos + n]

\* the token that starts at one of the regOps bytes
regToken(ps, b) ==
    LET b1 == byteAt(ps.src, ps.npos + 1)
        b2 == byteAt(ps.src, ps.npos + 2)
    IN  CASE b = "'" -> Tok(ps, "sglQuote", 1)
          [] b = "\"" -> Tok(ps, "dblQuote", 1)
          [] b = BQ -> Tok(ps, "bckQuote", 1)
          [] b = "&" ->
               IF b1 = "&" THEN Tok(ps, "andAnd", 2)
               ELSE IF b1 = ">" /\ bash(ps)
                    THEN (IF b2 = ">" THEN Tok(ps, "appAll", 3) ELSE Tok(ps, "rdrAll", 2))
                    ELSE Tok(ps, "and", 1)
          [] b = "|" ->
               IF b1 = "|" THEN Tok(ps, "orOr", 2)
               ELSE IF b1 = "&" /\ bash(ps) THEN Tok(ps, "pipeAll", 2)
               ELSE Tok(ps, "or", 1)
          [] b = "$" ->
               IF b1 = "'" /\ bash(ps) THEN Tok(ps, "dollSglQuote", 2)
               ELSE IF b1 = "\"" /\ bash(ps) THEN Tok(ps, "dollDblQuote", 2)
               ELSE IF b1 = "{" THEN Tok(ps, "dollBrace", 2)
               ELSE IF b1 = "[" /\ bash(ps) THEN Tok(ps, "dollBrack", 2)
               ELSE IF b1 = "("
                    THEN (IF b2 = "(" THEN Tok(ps, "dollDblParen", 3)
                          ELSE Tok(ps, "dollParen", 2))
                    ELSE Tok(ps, "dollar", 1)
          [] b = "(" ->
               IF b1 = "(" /\ bash(ps) THEN Tok(ps, "dblLeftParen", 2)
               ELSE Tok(ps, "leftParen", 1)
          [] b = ")" -> Tok(ps, "rightParen", 1)
          [] b = ";" ->
               IF b1 = ";"
               THEN (IF b2 = "&" /\ bash(ps) THEN Tok(ps, "dblSemiFall", 3)
                     ELSE Tok(ps, "dblSemicolon", 2))
               ELSE IF b1 = "&" /\ bash(ps) THEN Tok(ps, "semiFall", 2)
               ELSE Tok(ps, "semicolon", 1)
          [] b = "<" ->
               IF b1 = "<"
               THEN (IF b2 = "-" THEN Tok(ps, "dashHdoc", 3)
                     ELSE IF b2 = "<" /\ bash(ps) THEN Tok(ps, "wordHdoc", 3)
                     ELSE Tok(ps, "hdoc", 2))
               ELSE IF b1 = ">" THEN Tok(ps, "rdrInOut", 2)
               ELSE IF b1 = "&" THEN Tok(ps, "dplIn", 2)
               ELSE IF b1 = "(" /\ bash(ps) THEN Tok(ps, "cmdIn", 2)
               ELSE Tok(ps, "rdrIn", 1)
          [] OTHER -> \* ">"
               IF b1 = ">" THEN Tok(ps, "appOut", 2)
               ELSE IF b1 = "&" THEN Tok(ps, "dplOut", 2)
               ELSE IF b1 = "|" THEN Tok(ps, "clbOut", 2)
               ELSE IF b1 = "(" /\ bash(ps) THEN Tok(ps, "cmdOut", 2)
               ELSE Tok(ps, "rdrOut", 1)

\* the token that starts at ", ` or $ inside double quotes and heredoc bodies
dqToken(ps, b) ==
    LET b1 == byteAt(ps.src, ps.npos + 1)
        b2 == byteAt(ps.src, ps.npos + 2)
    IN  CASE b = "\"" -> Tok(ps, "dblQuote", 1)
          [] b = BQ -> Tok(ps, "bckQuote", 1)
          [] OTHER -> \* "$"
               IF b1 = "{" THEN Tok(ps, "dollBrace", 2)
               ELSE IF b1 = "[" /\ bash(ps) THEN Tok(ps, "dollBrack", 2)
               ELSE IF b1 = "("
                    THEN (IF b2 = "(" THEN Tok(ps, "dollDblParen", 3)
                          ELSE Tok(ps, "dollParen", 2))
                    ELSE Tok(ps, "dollar", 1)

\* the token that starts at one of the paramOps bytes
paramToken(ps, b) ==
    LET b1 == byteAt(ps.src, ps.npos + 1)
    IN  CASE b = "}" -> Tok(ps, "rightBrace", 1)
          [] b = ":" ->
               IF b1 = "+" THEN Tok(ps, "colPlus", 2)
               ELSE IF b1 = "-" THEN Tok(ps, "colMinus", 2)
               ELSE IF b1 = "?" THEN Tok(ps, "colQuest", 2)
               ELSE IF b1 = "=" THEN Tok(ps, "colAssgn", 2)
               ELSE Tok(ps, "colon", 1)
          [] b = "+" -> Tok(ps, "plus", 1)
          [] b = "-" -> Tok(ps, "minus", 1)
          [] b = "?" -> Tok(ps, "quest", 1)
          [] b = "=" -> Tok(ps, "assgn", 1)
          [] b = "%" -> IF b1 = "%" THEN Tok(ps, "dblPerc", 2) ELSE Tok(ps, "perc", 1)
          [] b = "#" -> IF b1 = "#" THEN Tok(ps, "dblHash", 2) ELSE Tok(ps, "hash", 1)
          [] b = "[" -> Tok(ps, "leftBrack", 1)
          [] b = "]" -> Tok(ps, "rightBrack", 1)
          [] b = "/" -> IF b1 = "/" THEN Tok(ps, "dblSlash", 2) ELSE Tok(ps, "slash", 1)
          [] b = "^" -> IF b1 = "^" THEN Tok(ps, "dblCaret", 2) ELSE Tok(ps, "caret", 1)
          [] OTHER -> \* ","
               IF b1 = "," THEN Tok(ps, "dblComma", 2) ELSE Tok(ps, "comma", 1)

\* the token that starts at one of the arithmOps bytes
arithmToken(ps, b) ==
    LET b1 == byteAt(ps.src, ps.npos + 1)
        b2 == byteAt(ps.src, ps.npos + 2)
    IN  CASE b = "!" -> IF b1 = "=" THEN Tok(ps, "nequal", 2) ELSE Tok(ps, "exclMark", 1)
          [] b = "=" -> IF b1 = "=" THEN Tok(ps, "equal", 2) ELSE Tok(ps, "assgn", 1)
          [] b = "(" -> Tok(ps, "leftParen", 1)
          [] b = ")" -> Tok(ps, "rightParen", 1)
          [] b = "&" ->
               IF b1 = "&" THEN Tok(ps, "andAnd", 2)
               ELSE IF b1 = "=" THEN Tok(ps, "andAssgn", 2)
               ELSE Tok(ps, "and", 1)
          [] b = "|" ->
               IF b1 = "|" THEN Tok(ps, "orOr", 2)
               ELSE IF b1 = "=" THEN Tok(ps, "orAssgn", 2)
               ELSE Tok(ps, "or", 1)
          [] b = "<" ->
               IF b1 = "<"
               THEN (IF b2 = "=" THEN Tok(ps, "shlAssgn", 3) ELSE Tok(ps, "hdoc", 2))
               ELSE IF b1 = "=" THEN Tok(ps, "lequal", 2)
               ELSE Tok(ps, "rdrIn", 1)
          [] b = ">" ->
               IF b1 = ">"
               THEN (IF b2 = "=" THEN Tok(ps, "shrAssgn", 3) ELSE Tok(ps, "appOut", 2))
               ELSE IF b1 = "=" THEN Tok(ps, "gequal", 2)
               ELSE Tok(ps, "rdrOut", 1)
          [] b = "+" ->
               IF b1 = "+" THEN Tok(ps, "addAdd", 2)
               ELSE IF b1 = "=" THEN Tok(ps, "addAssgn", 2)
               ELSE Tok(ps, "plus", 1)
          [] b = "-" ->
               IF b1 = "-" THEN Tok(ps, "subSub", 2)
               ELSE IF b1 = "=" THEN Tok(ps, "subAssgn", 2)
               ELSE Tok(ps, "minus", 1)
          [] b = "%" -> IF b1 = "=" THEN Tok(ps, "remAssgn", 2) ELSE Tok(ps, "perc", 1)
          [] b = "*" ->
               IF b1 = "*" THEN Tok(ps, "power", 2)
               ELSE IF b1 = "=" THEN Tok(ps, "mulAssgn", 2)
               ELSE Tok(ps, "star", 1)
          [] b = "/" -> IF b1 = "=" THEN Tok(ps, "quoAssgn", 2) ELSE Tok(ps, "slash", 1)
          [] b = "^" -> IF b1 = "=" THEN Tok(ps, "xorAssgn", 2) ELSE Tok(ps, "caret", 1)
          [] b = "," -> Tok(ps, "comma", 1)
          [] b = "?" -> Tok(ps, "quest", 1)
          [] b = ":" -> Tok(ps, "colon", 1)
          [] OTHER -> \* "]"
               Tok(ps, "rightBrack", 1)

---------------------------------------------------------------------------
(* Literal scanners of the lexer.  Each one reads from p.npos and sets     *)
(* p.tok, p.val and p.npos; newlines it crosses go to the line table.      *)

\* the result of a scan that stopped at offset i with the bytes bs read
Scanned(ps, tok, bs, i, ln) ==
    [ps EXCEPT !.tok = tok, !.val = bs, !.npos = i, !.f.Lines = ln]

\* whether an extended glob starts at offset i
globStart(ps, i) ==
    /\ bash(ps)
    /\ byteAt(ps.src, i) \in {"?", "*", "+", "@", "!"}
    /\ byteAt(ps.src, i + 1) = "("

\* a literal in a regular mode: it ends at a word break (a literal-word)
\* or where a quote or an expansion begins; the first = is recorded
RECURSIVE litNone(_, _, _, _, _)
litNone(ps, i, bs, as, ln) ==
    LET b == byteAt(ps.src, i)
        b1 == byteAt(ps.src, i + 1)
        stop(tok) == [Scanned(ps, tok, bs, i, ln) EXCEPT !.asPos = as]
    IN  IF i >= Len(ps.src) THEN stop("_LitWord")
        ELSE IF b = "\\"
        THEN IF i = Len(ps.src) - 1
             THEN [Scanned(ps, "_LitWord", Append(bs, b), i + 1, ln) EXCEPT !.asPos = as]
             ELSE IF b1 = "\n"
             THEN litNone(ps, i + 2, bs, as, Append(ln, i + 2))
             ELSE litNone(ps, i + 2, bs \o <<b, b1>>, as, ln)
        ELSE IF wordBreak(b) THEN stop("_LitWord")
        ELSE IF b = BQ
        THEN stop(IF ps.quote = "subCmdBckquo" THEN "_LitWord" ELSE "_Lit")
        ELSE IF b \in {"\"", "'", "$"} THEN stop("_Lit")
        ELSE IF globStart(ps, i) THEN stop("_Lit")
        ELSE IF b = "=" /\ as = 0
        THEN litNone(ps, i + 1, Append(bs, b),
                     IF Len(bs) > 0 /\ bs[Len(bs)] = "+" THEN Len(bs) - 1 ELSE Len(bs),
                     ln)
        ELSE litNone(ps, i + 1, Append(bs, b), as, ln)

advanceLitNone(ps) == litNone(ps, ps.npos, <<>>, 0, ps.f.Lines)

\* a literal in the modes that are neither regular nor quoted
RECURSIVE litOther(_, _, _, _, _)
litOther(ps, q, i, bs, ln) ==
    LET b == byteAt(ps.src, i)
        b1 == byteAt(ps.src, i + 1)
        more == litOther(ps, q, i + 1, Append(bs, b), ln)
    IN  IF i >= Len(ps.src) THEN Scanned(ps, "_LitWord", bs, i, ln)
        ELSE IF b = "\\"
        THEN IF i = Len(ps.src) - 1
             THEN Scanned(ps, "_LitWord", Append(bs, b), i + 1, ln)
             ELSE IF b1 = "\n"
             THEN litOther(ps, q, i + 2, bs, Append(ln, i + 2))
             ELSE litOther(ps, q, i + 2, bs \o <<b, b1>>, ln)
        ELSE IF q = "sglQuotes"
        THEN IF b = "'" THEN Scanned(ps, "_LitWord", bs, i, ln)
             ELSE IF b = "\n"
             THEN litOther(ps, q, i + 1, Append(bs, b), Append(ln, i + 1))
             ELSE more
        ELSE IF b \in {BQ, "$"} THEN Scanned(ps, "_Lit", bs, i, ln)
        ELSE IF q = "paramExpExp"
        THEN IF b = "}" THEN Scanned(ps, "_LitWord", bs, i, ln)
             ELSE IF b = "\"" THEN Scanned(ps, "_Lit", bs, i, ln)
             ELSE more
        ELSE IF q = "paramExpRepl"
        THEN IF b \in {"}", "/"} THEN Scanned(ps, "_LitWord", bs, i, ln) ELSE more
        ELSE IF \/ wordBreak(b)
                \/ regOps(b)
                \/ q \in allArithmExpr /\ arithmOps(b)
                \/ q \in allParamExp /\ paramOps(b)
                \/ q \in allRbrack /\ b = "]"
        THEN Scanned(ps, "_LitWord", bs, i, ln)
        ELSE more

advanceLitOther(ps, q) == litOther(ps, q, ps.npos, <<>>, ps.f.Lines)

\* a literal inside double quotes: verbatim up to ", ` or $
RECURSIVE litDquote(_, _, _)
litDquote(ps, i, ln) ==
    LET b == byteAt(ps.src, i)
        stop(tok) == Scanned(ps, tok, Slice(ps.src, ps.npos, i), i, ln)
    IN  IF i >= Len(ps.src) THEN stop("_Lit")
        ELSE IF b = "\\"
        THEN IF i + 1 >= Len(ps.src)
             THEN Scanned(ps, "_Lit", Slice(ps.src, ps.npos, i + 1), i + 1, ln)
             ELSE litDquote(ps, i + 2,
                            IF byteAt(ps.src, i + 1) = "\n" THEN Append(ln, i + 2) ELSE ln)
        ELSE IF b = "\"" THEN stop("_LitWord")
        ELSE IF b \in {BQ, "$"} THEN stop("_Lit")
        ELSE litDquote(ps, i + 1, IF b = "\n" THEN Append(ln, i + 1) ELSE ln)

advanceLitDquote(ps) == litDquote(ps, ps.npos, ps.f.Lines)

\* the offset after the tabs at offset n
RECURSIVE skipTabs(_, _)
skipTabs(src, n) == IF byteAt(src, n) = "\t" THEN skipTabs(src, n + 1) ELSE n

\* whether the stop word, followed by a newline or the end, is at offset i
isHdocEnd(ps, i) ==
    LET end == i + Len(ps.hdocStop)
    IN  /\ HasPrefixAt(ps.src, i, ps.hdocStop)
        /\ (end = Len(ps.src) \/ byteAt(ps.src, end) = "\n")

\* the offset where a body line may hold the stop word
lineStart(ps, n) == IF ps.quote = "hdocBodyTabs" THEN skipTabs(ps.src, n) ELSE n

\* a literal of a heredoc body whose stop word is unquoted
RECURSIVE litHdoc(_, _, _)
litHdoc(ps, i, ln) ==
    LET b == byteAt(ps.src, i)
        n == lineStart(ps, i + 1)
    IN  IF i >= Len(ps.src)
        THEN Scanned(ps, "_Lit", Slice(ps.src, ps.npos, Len(ps.src)), Len(ps.src), ln)
        ELSE IF b = "\\"
        THEN litHdoc(ps, i + 2,
                     IF byteAt(ps.src, i + 1) = "\n" THEN Append(ln, i + 2) ELSE ln)
        ELSE IF b \in {BQ, "$"}
        THEN Scanned(ps, "_Lit", Slice(ps.src, ps.npos, i), i, ln)
        ELSE IF b = "\n"
        THEN IF isHdocEnd(ps, n)
             THEN [Scanned(ps, "_LitWord", Slice(ps.src, ps.npos, n),
                           n + Len(ps.hdocStop), Append(ln, i + 1))
                   EXCEPT !.hdocStop = <<>>]
             ELSE litHdoc(ps, i + 1, Append(ln, i + 1))
        ELSE litHdoc(ps, i + 1, ln)

advanceLitHdoc(ps) ==
    LET n == lineStart(ps, ps.npos)
    IN  IF isHdocEnd(ps, n)
        THEN [(IF n > ps.npos
               THEN [ps EXCEPT !.tok = "_LitWord", !.val = Slice(ps.src, ps.npos, n)]
               ELSE ps)
              EXCEPT !.npos = n + Len(ps.hdocStop), !.hdocStop = <<>>]
        ELSE litHdoc(ps, ps.npos, ps.f.Lines)

\* the right-hand side of =~ : everything up to " ]]"
RECURSIVE reEnd(_, _)
reEnd(src, i) ==
    IF i >= Len(src) THEN Len(src)
    ELSE IF HasPrefixAt(src, i, <<" ", "]", "]">>) THEN i
    ELSE reEnd(src, i + 1)

advanceLitRe(ps) ==
    LET e == reEnd(ps.src, ps.npos)
    IN  [ps EXCEPT !.tok = "_LitWord", !.val = Slice(ps.src, ps.npos, e), !.npos = e]

\* readUntil: the bytes before the next byte b, and whether b was found
readUntil(ps, b) ==
    LET e == IndexIn(ps.src, ps.npos, {b})
    IN  [bs |-> Slice(ps.src, ps.npos, e), found |-> e < Len(ps.src)]

---------------------------------------------------------------------------
(* The parser instance and the objects it builds.                          *)
(*                                                                         *)
(* AST nodes are records with their Go field names and a field t for the   *)
(* node type; nil is Nil.  Redirect objects are shared between the         *)
(* statement that owns them and the queue p.heredocs, and are filled in    *)
(* after the statement got them, so they live in the table f.R and are     *)
(* referred to by index.  p.heredocs is a Go slice: a backing array of     *)
(* p.hdArrs (its length is the capacity) and a length.                     *)

Nil == [t |-> "nil"]

\* the File of a Parse call: alloc.f with f.Name and f.Lines set
NewFile(name) ==
    [Name |-> name, Lines |-> <<0>>, Stmts |-> <<>>, Comments |-> <<>>, R |-> <<>>]

\* what the pool's New function returns: &parser{} with zero values
NewParser ==
    [src |-> <<>>, f |-> NewFile(<<>>),
     mode |-> [ParseComments |-> FALSE, PosixConformant |-> FALSE],
     spaced |-> FALSE, newLine |-> FALSE, err |-> NoErr,
     tok |-> "illegalTok", val |-> <<>>, pos |-> 0, npos |-> 0,
     quote |-> "zeroState", asPos |-> 0,
     buriedHdocs |-> 0, heredocs |-> [arr |-> 0, len |-> 0], hdArrs |-> <<>>,
     hdocStop |-> <<>>]

\* cap(p.heredocs)
hdCap(ps) == IF ps.heredocs.arr = 0 THEN 0 ELSE Len(ps.hdArrs[ps.heredocs.arr])

\* append that leaves the slice as it is
appendHdocNone(ps, r) == ps

\* p.heredocs = append(p.heredocs, r): in place while the capacity lasts,
\* else into a new array of twice the capacity
appendHdoc(ps, r) ==
    LET h == ps.heredocs
        grown == [i \in 1..(IF hdCap(ps) = 0 THEN 1 ELSE 2 * hdCap(ps)) |->
                     IF i <= h.len THEN ps.hdArrs[h.arr][i]
                     ELSE IF i = h.len + 1 THEN r ELSE 0]
    IN  IF h.len < hdCap(ps)
        THEN [ps EXCEPT !.hdArrs[h.arr][h.len + 1] = r, !.heredocs.len = h.len + 1]
        ELSE [ps EXCEPT !.hdArrs = Append(ps.hdArrs, grown),
                        !.heredocs = [arr |-> Len(ps.hdArrs) + 1, len |-> h.len + 1]]

\* reset without its assignment to p.err
resetKeepsErr(ps) ==
    [ps EXCEPT !.spaced = FALSE, !.newLine = FALSE, !.npos = 0,
               !.tok = "illegalTok", !.quote = "noState",
               !.heredocs.len = 0, !.buriedHdocs = 0]

\* func (p *parser) reset()
reset(ps) ==
    [ps EXCEPT !.spaced = FALSE, !.newLine = FALSE, !.err = NoErr, !.npos = 0,
               !.tok = "illegalTok", !.quote = "noState",
               !.heredocs.len = 0, !.buriedHdocs = 0]

\* the arrays no slice refers to any more are the garbage collector's
dropGarbage(ps) ==
    IF ps.heredocs.arr = 0 THEN [ps EXCEPT !.hdArrs = <<>>]
    ELSE [ps EXCEPT !.hdArrs = <<ps.hdArrs[ps.heredocs.arr]>>, !.heredocs.arr = 1]

\* func (p *parser) preNested(quote quoteState) (s saveState): the new state
preNested(ps, quote) ==
    [ps EXCEPT !.buriedHdocs = ps.heredocs.len, !.quote = quote]

\* the saveState that preNested returns
saveState(ps) == [quote |-> ps.quote, buriedHdocs |-> ps.buriedHdocs]

\* postNested that restores the state of the lexer only
postNestedQuote(ps, s) == [ps EXCEPT !.quote = s.quote]

\* func (p *parser) postNested(s saveState)
postNested(ps, s) == [ps EXCEPT !.quote = s.quote, !.buriedHdocs = s.buriedHdocs]

\* func (p *parser) lit(pos Pos, val string) *Lit
lit(ps, pos, val) ==
    [t |-> "Lit", ValuePos |-> pos, ValueEnd |-> ps.npos + 1, Value |-> val]

\* func (p *parser) word(parts []WordPart) *Word
word(parts) == [t |-> "Word", Parts |-> parts]

\* func (p *parser) singleWps(wp WordPart) []WordPart
singleWps(wp) == <<wp>>

\* Pos() of a word part
partPos(wp) ==
    CASE wp.t = "Lit" -> wp.ValuePos
      [] wp.t \in {"SglQuoted", "DblQuoted"} -> wp.Position
      [] wp.t \in {"CmdSubst", "ArithmExp"} -> wp.Left
      [] wp.t = "ParamExp" -> wp.Dollar
      [] wp.t \in {"ProcSubst", "ExtGlob"} -> wp.OpPos
      [] OTHER -> wp.Lparen

\* End() of a word part: the position after its last byte
RECURSIVE partEnd(_)
partEnd(wp) ==
    CASE wp.t = "Lit" -> wp.ValueEnd
      [] wp.t = "SglQuoted" ->
           wp.Position + 2 + Len(wp.Value) + (IF wp.Dollar THEN 1 ELSE 0)
      [] wp.t = "DblQuoted" ->
           IF wp.Parts = <<>> THEN wp.Position + 2 + (IF wp.Dollar THEN 1 ELSE 0)
           ELSE partEnd(wp.Parts[Len(wp.Parts)]) + 1
      [] wp.t = "CmdSubst" -> wp.Right + 1
      [] wp.t = "ArithmExp" -> IF wp.Bracket THEN wp.Right + 1 ELSE wp.Right + 2
      [] wp.t = "ParamExp" ->
           IF wp.Short THEN (IF wp.Param = Nil THEN wp.Dollar + 1 ELSE wp.Param.ValueEnd)
           ELSE wp.Rbrace + 1
      [] wp.t = "ProcSubst" -> wp.Rparen + 1
      [] wp.t = "ExtGlob" ->
           IF wp.Pattern = Nil THEN wp.OpPos + 2 ELSE wp.Pattern.ValueEnd + 1
      [] OTHER -> wp.Rparen + 1

\* Pos() of a word
wordPos(w) == IF w.Parts = <<>> THEN 0 ELSE partPos(w.Parts[1])

\* func (p *parser) unquotedWordPart(b *bytes.Buffer, wp WordPart) bool:
\* the bytes written and the result
RECURSIVE unquotedWordPart(_, _)
unquotedParts(ps, parts) ==
    [i \in 1..Len(parts) |-> unquotedWordPart(ps, parts[i])]
Concat(bss) ==
    LET RECURSIVE cat(_)
        cat(i) == IF i > Len(bss) THEN <<>> ELSE bss[i] \o cat(i + 1)
    IN  cat(1)
unquotedWordPart(ps, wp) ==
    CASE wp.t = "Lit" ->
           IF byteAt(wp.Value, 0) = "\\"
           THEN [bs |-> Slice(wp.Value, 1, Len(wp.Value)), un |-> TRUE]
           ELSE [bs |-> wp.Value, un |-> FALSE]
      [] wp.t = "SglQuoted" -> [bs |-> wp.Value, un |-> TRUE]
      [] wp.t = "DblQuoted" ->
           LET sub == unquotedParts(ps, wp.Parts)
           IN  [bs |-> Concat([i \in 1..Len(sub) |-> sub[i].bs]), un |-> TRUE]
      [] OTHER -> [bs |-> Slice(ps.src, partPos(wp) - 1, partEnd(wp) - 1), un |-> FALSE]

\* func (p *parser) unquotedWordBytes(w *Word) ([]byte, bool)
unquotedWordBytes(ps, w) ==
    LET sub == unquotedParts(ps, w.Parts)
    IN  [bs |-> Concat([i \in 1..Len(sub) |-> sub[i].bs]),
         quoted |-> \E i \in 1..Len(sub) : sub[i].un]

---------------------------------------------------------------------------
(* The lexer's entry point, next, as operators: the token of the quoted    *)
(* modes, the loop that skips blanks, and the token of the other modes.    *)
(* The action next below puts them together, because the loop calls        *)
(* doHeredocs.                                                              *)

\* the body of a heredoc whose stop word is quoted: the lines up to the one
\* that equals the stop word, verbatim
RECURSIVE hdocLines(_, _, _)
hdocLines(ps, i, ln) ==
    LET e == IndexIn(ps.src, i, {"\n"})
        found == e < Len(ps.src)
        after == Min2(e + 1, Len(ps.src))
        ln2 == IF found THEN Append(ln, e + 1) ELSE ln
        line == Slice(ps.src, lineStart(ps, i), e)
    IN  IF i >= Len(ps.src) THEN [end |-> Len(ps.src), npos |-> i, ln |-> ln]
        ELSE IF line = ps.hdocStop THEN [end |-> i, npos |-> after, ln |-> ln2]
        ELSE hdocLines(ps, after, ln2)

\* func (p *parser) hdocLitWord() *Word: the state after it and the word
hdocLitWord(ps) ==
    LET r == hdocLines(ps, ps.npos, ps.f.Lines)
        ps2 == [ps EXCEPT !.npos = r.npos, !.f.Lines = r.ln]
    IN  [ps |-> ps2,
         w |-> word(singleWps(lit(ps2, ps.npos + 1, Slice(ps.src, ps.npos, r.end))))]

\* the token of the modes that read no blanks: inside quotes, heredoc
\* bodies and the words of a parameter expansion
quotedToken(ps, b, q) ==
    CASE q = "paramExpRepl" ->
           IF b = "}" THEN Tok(ps, "rightBrace", 1)
           ELSE IF b = "/" THEN Tok(ps, "slash", 1)
           ELSE IF b \in {BQ, "\"", "$"} THEN dqToken(ps, b)
           ELSE advanceLitOther(ps, q)
      [] q = "dblQuotes" ->
           IF b \in {BQ, "\"", "$"} THEN dqToken(ps, b) ELSE advanceLitDquote(ps)
      [] q \in {"hdocBody", "hdocBodyTabs"} ->
           IF b \in {BQ, "$"} THEN dqToken(ps, b)
           ELSE IF ps.hdocStop = <<>> THEN [ps EXCEPT !.tok = "illegalTok"]
           ELSE advanceLitHdoc(ps)
      [] q = "paramExpExp" ->
           IF b = "}" THEN Tok(ps, "rightBrace", 1)
           ELSE IF b \in {BQ, "\"", "$"} THEN dqToken(ps, b)
           ELSE advanceLitOther(ps, q)
      [] OTHER -> \* sglQuotes
           IF b = "'" THEN Tok(ps, "sglQuote", 1) ELSE advanceLitOther(ps, q)

quotedModes ==
    {"paramExpRepl", "dblQuotes", "hdocBody", "hdocBodyTabs", "paramExpExp", "sglQuotes"}

\* the loop skipSpace of next, from p.npos, which is inside the source.
\* It ends with st = "tok" at the first byte of a token, with st = "ret"
\* where next returns, and with st = "hdocs" after a newline that has
\* heredocs pending: next calls doHeredocs there and then goes on.
RECURSIVE skipSpace(_)
skipSpace(ps) ==
    LET b == byteAt(ps.src, ps.npos)
        goOn(ps2) ==
            IF ps2.npos >= Len(ps2.src)
            THEN [ps |-> [ps2 EXCEPT !.tok = "_EOF"], st |-> "ret"]
            ELSE skipSpace(ps2)
    IN  CASE b \in {" ", "\t", "\r"} ->
               goOn([ps EXCEPT !.spaced = TRUE, !.npos = ps.npos + 1])
          [] b = "\n" ->
               IF ps.quote = "arithmExprLet"
               THEN [ps |-> [ps EXCEPT !.tok = "illegalTok", !.newLine = TRUE,
                                       !.spaced = TRUE],
                     st |-> "ret"]
               ELSE LET ps2 == [ps EXCEPT !.spaced = TRUE, !.npos = ps.npos + 1,
                                          !.f.Lines = Append(ps.f.Lines, ps.npos + 1),
                                          !.newLine = TRUE]
                    IN  IF ps2.heredocs.len > ps2.buriedHdocs
                        THEN [ps |-> ps2, st |-> "hdocs"]
                        ELSE goOn(ps2)
          [] b = "\\" /\ byteAt(ps.src, ps.npos + 1) = "\n" ->
               goOn([ps EXCEPT !.npos = ps.npos + 2,
                               !.f.Lines = Append(ps.f.Lines, ps.npos + 2)])
          [] OTHER -> [ps |-> ps, st |-> "tok"]

\* a comment: the bytes after # up to the end of the line
comment(ps) ==
    LET ps1 == [ps EXCEPT !.npos = ps.npos + 1]
        bs == readUntil(ps1, "\n").bs
        c == [t |-> "Comment", Hash |-> ps.pos, Text |-> bs]
    IN  [ps1 EXCEPT !.npos = ps1.npos + Len(bs),
                    !.f.Comments = IF ps.mode.ParseComments
                                   THEN Append(ps.f.Comments, c)
                                   ELSE ps.f.Comments]

globToken(b) ==
    CASE b = "?" -> "globQuest"
      [] b = "*" -> "globStar"
      [] b = "+" -> "globPlus"
      [] b = "@" -> "globAt"
      [] OTHER -> "globExcl"

\* the token that starts at byte b = p.src[p.npos] in mode q, for the
\* modes that skip blanks and for a b that does not start a comment
token(ps, b, q) ==
    IF q \in allRegTokens
    THEN IF regOps(b) THEN regToken(ps, b)
         ELSE IF globStart(ps, ps.npos) THEN Tok(ps, globToken(b), 2)
         ELSE advanceLitNone(ps)
    ELSE IF q \in allArithmExpr /\ arithmOps(b) THEN arithmToken(ps, b)
    ELSE IF q \in allParamExp /\ paramOps(b) THEN paramToken(ps, b)
    ELSE IF q = "testRegexp" THEN advanceLitRe(ps)
    ELSE IF regOps(b) THEN regToken(ps, b)
    ELSE advanceLitOther(ps, q)

---------------------------------------------------------------------------
(* The machine.  Top is the frame of the method that is running; a step    *)
(* returns (Ret), calls (Call) or goes on in the same method (Goto).       *)

Top == calls[Len(calls)]
Pop == SubSeq(calls, 1, Len(calls) - 1)
Running(fn) == calls # <<>> /\ Top.fn = fn
At(fr, pc) == [fr EXCEPT !.pc = pc]

\* p.heredocs[p.buriedHdocs:], the redirects that wait for their bodies
pending(ps) ==
    IF ps.heredocs.arr = 0 THEN <<>>
    ELSE SubSeq(ps.hdArrs[ps.heredocs.arr], ps.buriedHdocs + 1, ps.heredocs.len)

\* a frame with what the parser held when the call was made (p.quote,
\* p.buriedHdocs, p.tok, p.npos, len(p.f.Lines) and the pending heredocs at
\* entry), which every frame keeps to its end
Entered(fr, ps) ==
    fr @@ [q0 |-> ps.quote, b0 |-> ps.buriedHdocs, tok0 |-> ps.tok, npos0 |-> ps.npos,
           lines0 |-> Len(ps.f.Lines), batch0 |-> pending(ps)]
\* a frame that takes the place of the frame on top, in the same call
Kept(fr) ==
    fr @@ [q0 |-> calls[Len(calls)].q0, b0 |-> calls[Len(calls)].b0,
           tok0 |-> calls[Len(calls)].tok0, npos0 |-> calls[Len(calls)].npos0,
           lines0 |-> calls[Len(calls)].lines0, batch0 |-> calls[Len(calls)].batch0]

Step(pp, s, r) == p' = pp /\ calls' = s /\ rv' = r /\ UNCHANGED <<todo, rets>>
Ret(pp, v) == Step(pp, Pop, v)
Call(pp, fr, callee) ==
    Step(pp, Pop \o <<Kept(fr), Entered(callee, pp)>>, rv)
Goto(pp, fr) == Step(pp, Append(Pop, Kept(fr)), rv)

\* the frames of the calls that take no argument
Fr(fn) == [fn |-> fn, pc |-> 0]

\* func (p *parser) next()
\*   pc 0: entry;  pc 1: doHeredocs has returned inside the loop skipSpace
next ==
    /\ Running("next")
    /\ LET b == byteAt(p.src, p.npos)
           skip(ps) ==
               LET r == skipSpace(ps)
                   ps1 == [r.ps EXCEPT !.pos = r.ps.npos + 1]
                   b1 == byteAt(ps1.src, ps1.npos)
               IN  CASE r.st = "ret" -> Ret(r.ps, rv)
                     [] r.st = "hdocs" -> Call(r.ps, At(Top, 1), Fr("doHeredocs"))
                     [] OTHER ->
                          IF Top.q \in allRegTokens /\ b1 = "#"
                          THEN Goto(comment(ps1), At(Top, 0))
                          ELSE Ret(token(ps1, b1, Top.q), rv)
       IN  CASE Top.pc = 0 ->
                 IF p.tok = "_EOF" \/ p.npos >= Len(p.src)
                 THEN Ret([p EXCEPT !.tok = "_EOF"], rv)
                 ELSE LET ps0 == [p EXCEPT !.spaced = FALSE, !.newLine = FALSE,
                                           !.pos = p.npos + 1]
                      IN  IF Top.q = "hdocWord" /\ wordBreak(b)
                          THEN Ret([ps0 EXCEPT !.tok = "illegalTok", !.spaced = TRUE], rv)
                          ELSE IF Top.q \in quotedModes
                          THEN Ret(quotedToken(ps0, b, Top.q), rv)
                          ELSE skip(ps0)
             [] OTHER ->
                 IF p.tok = "_EOF" THEN Ret(p, rv)
                 ELSE IF p.npos >= Len(p.src) THEN Ret([p EXCEPT !.tok = "_EOF"], rv)
                 ELSE skip(p)

\* the frame of a call of next: q := p.quote
NextFr(ps) == [fn |-> "next", pc |-> 0, q |-> ps.quote]

\* func (p *parser) doHeredocs()
\*   pc 0: entry;  pc 1: next has returned;  pc 2: getWordOrEmpty has
\*   returned;  pc 3: the head of the loop;  pc 4: the stop word is quoted
\*   and p.hdocStop is set, before hdocLitWord
\* hdocs is the slice p.heredocs[p.buriedHdocs:]: it shares its array with
\* p.heredocs, and the loop reads hdocs[i] when it gets there.
doHeredocs ==
    /\ Running("doHeredocs")
    /\ LET loop(ps, f) ==
               IF f.i >= f.hdocs.len THEN Ret([ps EXCEPT !.quote = f.old], rv)
               ELSE LET r == ps.hdArrs[f.hdocs.arr][f.hdocs.off + f.i + 1]
                        u == unquotedWordBytes(ps, ps.f.R[r].Word)
                        ps1 == [ps EXCEPT !.quote = IF ps.f.R[r].Op = "dashHdoc"
                                                    THEN "hdocBodyTabs" ELSE "hdocBody",
                                          !.hdocStop = u.bs]
                        ps2 == IF f.i > 0 /\ byteAt(ps1.src, ps1.npos) = "\n"
                               THEN [ps1 EXCEPT !.npos = ps1.npos + 1,
                                                !.f.Lines = Append(ps1.f.Lines, ps1.npos + 1)]
                               ELSE ps1
                    IN  IF ~u.quoted
                        THEN Call(ps2, [f EXCEPT !.pc = 1, !.r = r], NextFr(ps2))
                        ELSE Goto(ps2, [f EXCEPT !.pc = 4, !.r = r])
       IN  CASE Top.pc = 0 ->
                 loop([p EXCEPT !.tok = "illegalTok", !.heredocs.len = p.buriedHdocs],
                      [fn |-> "doHeredocs", pc |-> 3, old |-> p.quote, i |-> 0, r |-> 0,
                       hdocs |-> [arr |-> p.heredocs.arr, off |-> p.buriedHdocs,
                                  len |-> p.heredocs.len - p.buriedHdocs]])
             [] Top.pc = 1 -> Call(p, At(Top, 2), Fr("getWordOrEmpty"))
             [] Top.pc = 2 ->
                 loop([p EXCEPT !.f.R[Top.r].Hdoc = rv], [Top EXCEPT !.i = Top.i + 1])
             [] Top.pc = 4 ->
                 Goto([hdocLitWord(p).ps EXCEPT !.f.R[Top.r].Hdoc = hdocLitWord(p).w],
                      [Top EXCEPT !.pc = 3, !.i = Top.i + 1])
             [] OTHER -> loop(p, Top)

\* func (p *parser) got(tok token) bool
got ==
    /\ Running("got")
    /\ CASE Top.pc = 0 ->
              IF p.tok = Top.tok THEN Call(p, At(Top, 1), NextFr(p)) ELSE Ret(p, FALSE)
         [] OTHER -> Ret(p, TRUE)

GotFr(tok) == [fn |-> "got", pc |-> 0, tok |-> tok]

\* func (p *parser) gotRsrv(val string) bool
gotRsrv ==
    /\ Running("gotRsrv")
    /\ CASE Top.pc = 0 ->
              IF p.tok = "_LitWord" /\ p.val = Top.val
              THEN Call(p, At(Top, 1), NextFr(p))
              ELSE Ret(p, FALSE)
         [] OTHER -> Ret(p, TRUE)

GotRsrvFr(val) == [fn |-> "gotRsrv", pc |-> 0, val |-> val]

\* func (p *parser) gotSameLine(tok token) bool
gotSameLine ==
    /\ Running("gotSameLine")
    /\ CASE Top.pc = 0 ->
              IF ~p.newLine /\ p.tok = Top.tok
              THEN Call(p, At(Top, 1), NextFr(p))
              ELSE Ret(p, FALSE)
         [] OTHER -> Ret(p, TRUE)

GotSameLineFr(tok) == [fn |-> "gotSameLine", pc |-> 0, tok |-> tok]

\* strconv.Quote and %q: the string between double quotes, with an escape
\* for the double quote, the backslash, the newline and the tab
RECURSIVE escaped(_)
escaped(s) ==
    IF s = <<>> THEN <<>>
    ELSE (CASE s[1] = "\"" -> <<"\\", "\"">>
            [] s[1] = "\\" -> <<"\\", "\\">>
            [] s[1] = "\n" -> <<"\\", "n">>
            [] s[1] = "\t" -> <<"\\", "t">>
            [] OTHER -> <<s[1]>>) \o escaped(Tail(s))

Quote(s) == <<"\"">> \o escaped(s) \o <<"\"">>

\* func readableStr(s string) string
readableStr(s) == IF s # <<>> /\ s[1] \in Lower THEN Quote(s) ELSE s

\* func (p *parser) followErr(pos Pos, left, right string)
followErr(ps, pos, left, right) ==
    posErr(ps, pos, "%s must be followed by %s", <<readableStr(left), right>>)

\* the texts that follow "must be followed by"
anExpression == <<"a", "n", " ", "e", "x", "p", "r", "e", "s", "s", "i", "o", "n">>
aWord == <<"a", " ", "w", "o", "r", "d">>
aStatementList ==
    <<"a", " ", "s", "t", "a", "t", "e", "m", "e", "n", "t", " ", "l", "i", "s", "t">>

\* func (p *parser) followErrExp(pos Pos, left string)
followErrExp(ps, pos, left) == followErr(ps, pos, left, anExpression)

\* func (p *parser) follow(lpos Pos, left string, tok token) Pos
follow ==
    /\ Running("follow")
    /\ CASE Top.pc = 0 -> Call(p, [Top EXCEPT !.pc = 1, !.pos = p.pos], GotFr(Top.tok))
         [] OTHER ->
              Ret(IF rv THEN p ELSE followErr(p, Top.lpos, Top.left, TokStr(Top.tok)),
                  Top.pos)

FollowFr(lpos, left, tok) ==
    [fn |-> "follow", pc |-> 0, lpos |-> lpos, left |-> left, tok |-> tok, pos |-> 0]

\* func (p *parser) followRsrv(lpos Pos, left, val string) Pos
followRsrv ==
    /\ Running("followRsrv")
    /\ CASE Top.pc = 0 -> Call(p, [Top EXCEPT !.pc = 1, !.pos = p.pos], GotRsrvFr(Top.val))
         [] OTHER ->
              Ret(IF rv THEN p ELSE followErr(p, Top.lpos, Top.left, Quote(Top.val)),
                  Top.pos)

FollowRsrvFr(lpos, left, val) ==
    [fn |-> "followRsrv", pc |-> 0, lpos |-> lpos, left |-> left, val |-> val, pos |-> 0]

\* the frame of a call of stmts: q := p.quote, gotEnd := true
StmtsFr(ps, stops) ==
    [fn |-> "stmts", pc |-> 0, stops |-> stops, q |-> ps.quote, gotEnd |-> TRUE,
     sts |-> <<>>]

\* func (p *parser) followStmts(left string, lpos Pos, stops ...string) []*Stmt
followStmts ==
    /\ Running("followStmts")
    /\ CASE Top.pc = 0 -> Call(p, At(Top, 1), GotSameLineFr("semicolon"))
         [] Top.pc = 1 ->
              IF rv THEN Ret(p, <<>>) ELSE Call(p, At(Top, 2), StmtsFr(p, Top.stops))
         [] OTHER ->
              Ret(IF Len(rv) < 1 /\ ~p.newLine
                  THEN followErr(p, Top.lpos, Top.left, aStatementList)
                  ELSE p,
                  rv)

FollowStmtsFr(left, lpos, stops) ==
    [fn |-> "followStmts", pc |-> 0, left |-> left, lpos |-> lpos, stops |-> stops]

\* func (p *parser) followWordTok(tok token, pos Pos) *Word
followWordTok ==
    /\ Running("followWordTok")
    /\ CASE Top.pc = 0 -> Call(p, At(Top, 1), Fr("getWord"))
         [] OTHER ->
              Ret(IF rv = Nil THEN followErr(p, Top.pos, TokStr(Top.tok), aWord) ELSE p, rv)

FollowWordTokFr(tok, pos) == [fn |-> "followWordTok", pc |-> 0, tok |-> tok, pos |-> pos]

\* func (p *parser) followWord(s string, pos Pos) *Word
followWord ==
    /\ Running("followWord")
    /\ CASE Top.pc = 0 -> Call(p, At(Top, 1), Fr("getWord"))
         [] OTHER ->
              Ret(IF rv = Nil THEN followErr(p, Top.pos, Top.s, aWord) ELSE p, rv)

FollowWordFr(s, pos) == [fn |-> "followWord", pc |-> 0, s |-> s, pos |-> pos]

\* func (p *parser) stmtEnd(n Node, start, end string) Pos; npos is n.Pos()
stmtEnd ==
    /\ Running("stmtEnd")
    /\ CASE Top.pc = 0 -> Call(p, [Top EXCEPT !.pc = 1, !.pos = p.pos], GotRsrvFr(Top.end))
         [] OTHER ->
              Ret(IF rv THEN p
                  ELSE posErr(p, Top.npos, "%s statement must end with %q",
                              <<Top.start, Top.end>>),
                  Top.pos)

StmtEndFr(npos, start, end) ==
    [fn |-> "stmtEnd", pc |-> 0, npos |-> npos, start |-> start, end |-> end, pos |-> 0]

\* func (p *parser) quoteErr(lpos Pos, quote token)
quoteErr(ps, lpos, quote) ==
    posErr(ps, lpos, "reached %s without closing quote %s",
           <<TokStr(ps.tok), TokStr(quote)>>)

\* matchingErr that reports where the input ended
matchingErrStrHere(ps, lpos, left, right) ==
    posErr(ps, ps.npos, "reached %s without matching %s with %s",
           <<TokStr(ps.tok), left, right>>)

\* func (p *parser) matchingErr(lpos Pos, left, right interface{}), for a
\* left and a right that are strings
matchingErrStr(ps, lpos, left, right) ==
    posErr(ps, lpos, "reached %s without matching %s with %s",
           <<TokStr(ps.tok), left, right>>)

\* func (p *parser) matchingErr(lpos Pos, left, right interface{}), for a
\* left and a right that are tokens
matchingErr(ps, lpos, left, right) ==
    matchingErrStr(ps, lpos, TokStr(left), TokStr(right))

\* func (p *parser) matched(lpos Pos, left, right token) Pos
matched ==
    /\ Running("matched")
    /\ CASE Top.pc = 0 -> Call(p, [Top EXCEPT !.pc = 1, !.pos = p.pos], GotFr(Top.right))
         [] OTHER ->
              Ret(IF rv THEN p ELSE matchingErr(p, Top.lpos, Top.left, Top.right), Top.pos)

MatchedFr(lpos, left, right) ==
    [fn |-> "matched", pc |-> 0, lpos |-> lpos, left |-> left, right |-> right, pos |-> 0]

\* invalidStmtStart that records no error: the token that starts no
\* statement stays current
invalidStmtStartSilent(ps) == ps

\* func (p *parser) invalidStmtStart()
invalidStmtStart(ps) ==
    IF ps.tok \in {"semicolon", "and", "or", "andAnd", "orOr"}
    THEN curErr(ps, "%s can only immediately follow a statement", <<TokStr(ps.tok)>>)
    ELSE IF ps.tok = "rightParen"
    THEN curErr(ps, "%s can only be used to close a subshell", <<TokStr(ps.tok)>>)
    ELSE curErr(ps, "%s is not a valid start for a statement", <<TokStr(ps.tok)>>)

\* func (p *parser) stmt(pos Pos) *Stmt
stmt(pos) ==
    [t |-> "Stmt", Position |-> pos, SemiPos |-> 0, Negated |-> FALSE,
     Background |-> FALSE, Assigns |-> <<>>, Redirs |-> <<>>, Cmd |-> Nil]

\* the frame of a call of getStmt: s = p.stmt(p.pos)
GetStmtFr(ps, readEnd) ==
    [fn |-> "getStmt", pc |-> 0, readEnd |-> readEnd, gotEnd |-> FALSE, b |-> Nil,
     s |-> stmt(ps.pos)]

\* func (p *parser) stmts(stops ...string) (sts []*Stmt)
\*   pc 0: the head of the loop;  pc 1: getStmt has returned
stmts ==
    /\ Running("stmts")
    /\ LET loop(ps, f) ==
               LET inCase == ps.tok \in {"dblSemicolon", "semiFall", "dblSemiFall"}
                   ps1 == IF inCase
                          THEN curErr(ps, "%s can only be used in a case clause",
                                      <<TokStr(ps.tok)>>)
                          ELSE ps
                   ps2 == IF ~ps1.newLine /\ ~f.gotEnd
                          THEN curErr(ps1, "statements must be separated by &, ; or a newline",
                                      <<>>)
                          ELSE ps1
               IN  IF \/ ps.tok = "_EOF"
                      \/ ps.tok = "_LitWord" /\ ps.val \in f.stops
                      \/ ps.tok = "rightParen" /\ f.q = "subCmd"
                      \/ ps.tok = "bckQuote" /\ f.q = "subCmdBckquo"
                      \/ inCase /\ f.q = "switchCase"
                   THEN Ret(ps, f.sts)
                   ELSE IF ps2.tok = "_EOF" THEN Ret(ps2, f.sts)
                   ELSE Call(ps2, At(f, 1), GetStmtFr(ps2, TRUE))
       IN  CASE Top.pc = 0 -> loop(p, Top)
             [] OTHER ->
                  IF rv.s = Nil THEN loop(invalidStmtStart(p), Top)
                  ELSE loop(p, [Top EXCEPT !.sts = Append(Top.sts, rv.s),
                                           !.gotEnd = rv.gotEnd])

\* func (p *parser) getWord() *Word
getWord ==
    /\ Running("getWord")
    /\ CASE Top.pc = 0 ->
              IF p.tok = "_LitWord"
              THEN Call(p, [fn |-> "getWord", pc |-> 1,
                            w |-> word(singleWps(lit(p, p.pos, p.val)))],
                        NextFr(p))
              ELSE Call(p, At(Top, 2), Fr("wordParts"))
         [] Top.pc = 1 -> Ret(p, Top.w)
         [] OTHER -> Ret(p, IF Len(rv) > 0 THEN word(rv) ELSE Nil)

\* func (p *parser) getWordOrEmpty() *Word
getWordOrEmpty ==
    /\ Running("getWordOrEmpty")
    /\ CASE Top.pc = 0 -> Call(p, At(Top, 1), Fr("wordParts"))
         [] OTHER ->
              IF Len(rv) = 0
              THEN \* p.npos is p.pos-1 while the Lit is made, to force Pos() == End()
                   Ret(p, word(singleWps(lit([p EXCEPT !.npos = p.pos - 1], p.pos, <<>>))))
              ELSE Ret(p, word(rv))

\* func (p *parser) getLit() *Lit
getLit ==
    /\ Running("getLit")
    /\ CASE Top.pc = 0 ->
              IF p.tok \in {"_Lit", "_LitWord"}
              THEN Call(p, [fn |-> "getLit", pc |-> 1, l |-> lit(p, p.pos, p.val)],
                        NextFr(p))
              ELSE Ret(p, Nil)
         [] OTHER -> Ret(p, Top.l)

\* func (p *parser) wordParts() (wps []WordPart)
wordParts ==
    /\ Running("wordParts")
    /\ CASE Top.pc = 0 ->
              Call(p, [fn |-> "wordParts", pc |-> 1, wps |-> <<>>], Fr("wordPart"))
         [] OTHER ->
              IF rv = Nil THEN Ret(p, Top.wps)
              ELSE IF p.spaced THEN Ret(p, Append(Top.wps, rv))
              ELSE Call(p, [Top EXCEPT !.wps = Append(Top.wps, rv)], Fr("wordPart"))

\* the loop byteLoop of wordPart: from offset i with lparens open
\* parentheses, to the ) that closes the extended glob or to the end
RECURSIVE globScan(_, _, _)
globScan(src, i, lparens) ==
    IF i >= Len(src) THEN [npos |-> i, lparens |-> lparens]
    ELSE IF src[i + 1] = "(" THEN globScan(src, i + 1, lparens + 1)
    ELSE IF src[i + 1] = ")"
    THEN (IF lparens = 0 THEN [npos |-> i, lparens |-> -1]
          ELSE globScan(src, i + 1, lparens - 1))
    ELSE globScan(src, i + 1, lparens)

\* the state after the bytes of a single-quoted string were read
sglQuoted(ps) ==
    LET r == readUntil(ps, "'")
        e == ps.npos + Len(r.bs)
        ps1 == [ps EXCEPT !.npos = e + 1,
                          !.f.Lines = ps.f.Lines \o NewLines(ps.src, ps.npos, e)]
    IN  [ps |-> IF r.found THEN ps1
                ELSE posErr(ps1, ps.pos, "reached EOF without closing quote %s",
                            <<TokStr("sglQuote")>>),
         bs |-> r.bs]

\* the one-character parameters of a short expansion
shortParams == {"@", "*", "#", "$", "?", "!", "0", "-"}

NoSave == [quote |-> "noState", buriedHdocs |-> 0]

ArithmExprFr(ftok, fpos, level, compact, tern) ==
    [fn |-> "arithmExpr", pc |-> 0, ftok |-> ftok, fpos |-> fpos, level |-> level,
     compact |-> compact, tern |-> tern, b |-> Nil, newLevel |-> 0]

ArithmExprBaseFr(ftok, fpos, compact) ==
    [fn |-> "arithmExprBase", pc |-> 0, ftok |-> ftok, fpos |-> fpos, compact |-> compact,
     n |-> Nil]

ArithmEndFr(ltok, lpos, old) ==
    [fn |-> "arithmEnd", pc |-> 0, ltok |-> ltok, lpos |-> lpos, old |-> old, pos |-> 0]

\* func (p *parser) wordPart() WordPart
\*   pc 0: entry;  pc 1: return the node n;  pc 2: return what the call
\*   returned;  the other values are the places after the calls, in the
\*   order of the code
wordPart ==
    /\ Running("wordPart")
    /\ LET f == [fn |-> "wordPart", pc |-> 0, n |-> Nil, old |-> NoSave, left |-> "",
                 lparens |-> 0]
           tok == p.tok
           b == byteAt(p.src, p.npos)
           g == globScan(p.src, p.npos, 0)
           sq == sglQuoted(p)
       IN  CASE Top.pc = 0 ->
             (CASE tok \in {"_Lit", "_LitWord"} ->
                    Call(p, [f EXCEPT !.pc = 1, !.n = lit(p, p.pos, p.val)], NextFr(p))
               [] tok = "dollBrace" -> Call(p, At(f, 2), Fr("paramExp"))
               [] tok \in {"dollDblParen", "dollBrack"} ->
                    LET ar == [t |-> "ArithmExp", Left |-> p.pos, Right |-> 0,
                               Bracket |-> tok = "dollBrack", X |-> Nil]
                        f1 == [f EXCEPT !.n = ar, !.old = saveState(p), !.left = tok]
                        ps == preNested(p, "arithmExpr")
                        ps1 == [ps EXCEPT !.quote = "arithmExprBrack"]
                    IN  IF ar.Bracket THEN Call(ps1, At(f1, 5), NextFr(ps1))
                        ELSE Call(ps, At(f1, 3), Fr("couldBeArithm"))
               [] tok = "dollParen" ->
                    LET ps == IF p.quote = "hdocWord"
                              THEN curErr(p, "nested statements not allowed in heredoc words",
                                          <<>>)
                              ELSE p
                        cs == [t |-> "CmdSubst", Left |-> ps.pos, Right |-> 0, Stmts |-> <<>>]
                        ps1 == preNested(ps, "subCmd")
                    IN  Call(ps1, [f EXCEPT !.pc = 9, !.n = cs, !.old = saveState(ps)],
                             NextFr(ps1))
               [] tok = "dollar" ->
                    IF b = NUL \/ wordBreak(b) \/ b \in {"\"", "'", BQ, "["}
                    THEN Call(p, [f EXCEPT !.pc = 1, !.n = lit(p, p.pos, <<"$">>)], NextFr(p))
                    ELSE LET pe == [t |-> "ParamExp", Dollar |-> p.pos, Rbrace |-> 0,
                                    Short |-> TRUE, Length |-> FALSE, Param |-> Nil,
                                    Ind |-> Nil, Slice |-> Nil, Repl |-> Nil, Exp |-> Nil]
                             ps == [p EXCEPT !.pos = p.pos + 1]
                             ps1 == IF b \in shortParams
                                    THEN [ps EXCEPT !.npos = ps.npos + 1, !.tok = "_Lit",
                                                    !.val = <<b>>]
                                    ELSE advanceLitOther(ps, ps.quote)
                         IN  Call(ps1, [f EXCEPT !.pc = 12, !.n = pe], Fr("getLit"))
               [] tok \in {"cmdIn", "cmdOut"} ->
                    LET n == [t |-> "ProcSubst", Op |-> tok, OpPos |-> p.pos, Rparen |-> 0,
                              Stmts |-> <<>>]
                        ps1 == preNested(p, "subCmd")
                    IN  Call(ps1, [f EXCEPT !.pc = 13, !.n = n, !.old = saveState(p)],
                             NextFr(ps1))
               [] tok = "sglQuote" ->
                    Call(sq.ps,
                         [f EXCEPT !.pc = 1,
                                   !.n = [t |-> "SglQuoted", Position |-> p.pos,
                                          Dollar |-> FALSE, Value |-> sq.bs]],
                         NextFr(sq.ps))
               [] tok = "dollSglQuote" ->
                    LET n == [t |-> "SglQuoted", Position |-> p.pos, Dollar |-> TRUE,
                              Value |-> <<>>]
                        ps1 == [p EXCEPT !.quote = "sglQuotes"]
                    IN  Call(ps1, [f EXCEPT !.pc = 16, !.n = n, !.old.quote = p.quote],
                             NextFr(ps1))
               [] tok = "dblQuote" /\ p.quote = "dblQuotes" -> Ret(p, Nil)
               [] tok \in {"dblQuote", "dollDblQuote"} ->
                    LET n == [t |-> "DblQuoted", Position |-> p.pos,
                              Dollar |-> tok = "dollDblQuote", Parts |-> <<>>]
                        ps1 == [p EXCEPT !.quote = "dblQuotes"]
                    IN  Call(ps1, [f EXCEPT !.pc = 19, !.n = n, !.old.quote = p.quote],
                             NextFr(ps1))
               [] tok = "bckQuote" /\ p.quote = "subCmdBckquo" -> Ret(p, Nil)
               [] tok = "bckQuote" ->
                    LET ps == IF p.quote = "hdocWord"
                              THEN curErr(p, "nested statements not allowed in heredoc words",
                                          <<>>)
                              ELSE p
                        cs == [t |-> "CmdSubst", Left |-> ps.pos, Right |-> 0, Stmts |-> <<>>]
                        ps1 == preNested(ps, "subCmdBckquo")
                    IN  Call(ps1, [f EXCEPT !.pc = 23, !.n = cs, !.old = saveState(ps)],
                             NextFr(ps1))
               [] tok \in {"globQuest", "globStar", "globPlus", "globAt", "globExcl"} ->
                    LET ps == [p EXCEPT !.npos = g.npos]
                        pat == IF g.lparens = -1
                               THEN lit(ps, p.npos + 1, Slice(p.src, p.npos, g.npos))
                               ELSE Nil
                        ps1 == IF g.lparens = -1 THEN [ps EXCEPT !.npos = g.npos + 1] ELSE ps
                        n == [t |-> "ExtGlob", Op |-> tok, OpPos |-> p.pos, Pattern |-> pat]
                    IN  Call(ps1, [f EXCEPT !.pc = 26, !.n = n, !.left = tok,
                                            !.lparens = g.lparens],
                             NextFr(ps1))
               [] OTHER -> Ret(p, Nil))
             [] Top.pc = 1 -> Ret(p, Top.n)
             [] Top.pc = 2 -> Ret(p, rv)
             \* $(( : couldBeArithm has returned
             [] Top.pc = 3 ->
                  IF ~rv
                  THEN LET ps == [postNested(p, Top.old)
                                  EXCEPT !.npos = Top.n.Left + 1, !.tok = "dollParen",
                                         !.pos = Top.n.Left]
                       IN  Call(ps, At(Top, 4), Fr("wordPart"))
                  ELSE Call(p, At(Top, 5), NextFr(p))
             \* the $( read in place of $(( has returned
             [] Top.pc = 4 ->
                  Ret(IF p.err # NoErr
                      THEN matchingErr([p EXCEPT !.err = NoErr], Top.n.Left,
                                       "dollDblParen", "dblRightParen")
                      ELSE p,
                      rv)
             [] Top.pc = 5 ->
                  Call(p, At(Top, 6), ArithmExprFr(Top.left, Top.n.Left, 0, FALSE, FALSE))
             [] Top.pc = 6 ->
                  IF Top.n.Bracket
                  THEN LET ps == IF p.tok # "rightBrack"
                                 THEN matchingErr(p, Top.n.Left, "dollBrack", "rightBrack")
                                 ELSE p
                           ps1 == postNested(ps, Top.old)
                       IN  Call(ps1, [Top EXCEPT !.pc = 1, !.n.X = rv, !.n.Right = ps1.pos],
                                NextFr(ps1))
                  ELSE Call(p, [Top EXCEPT !.pc = 8, !.n.X = rv],
                            ArithmEndFr("dollDblParen", Top.n.Left, Top.old))
             [] Top.pc = 8 -> Ret(p, [Top.n EXCEPT !.Right = rv])
             \* $( and <( >( : next, stmts and matched have returned
             [] Top.pc \in {9, 13} -> Call(p, At(Top, Top.pc + 1), StmtsFr(p, {}))
             [] Top.pc = 10 ->
                  Call(postNested(p, Top.old), [Top EXCEPT !.pc = 11, !.n.Stmts = rv],
                       MatchedFr(Top.n.Left, "leftParen", "rightParen"))
             [] Top.pc = 11 -> Ret(p, [Top.n EXCEPT !.Right = rv])
             [] Top.pc = 12 -> Ret(p, [Top.n EXCEPT !.Param = rv])
             [] Top.pc = 14 ->
                  Call(postNested(p, Top.old), [Top EXCEPT !.pc = 15, !.n.Stmts = rv],
                       MatchedFr(Top.n.OpPos, Top.n.Op, "rightParen"))
             [] Top.pc = 15 -> Ret(p, [Top.n EXCEPT !.Rparen = rv])
             \* $' : the next calls and got have returned
             [] Top.pc = 16 ->
                  LET ps == [p EXCEPT !.quote = Top.old.quote]
                  IN  IF ps.tok # "sglQuote"
                      THEN Call(ps, [Top EXCEPT !.pc = 17, !.n.Value = ps.val], NextFr(ps))
                      ELSE Call(ps, At(Top, 18), GotFr("sglQuote"))
             [] Top.pc = 17 -> Call(p, At(Top, 18), GotFr("sglQuote"))
             [] Top.pc = 18 ->
                  Ret(IF rv THEN p ELSE quoteErr(p, Top.n.Position, "sglQuote"), Top.n)
             \* " and $" : next, the parts and got have returned
             [] Top.pc = 19 ->
                  IF p.tok = "_LitWord"
                  THEN Call(p, [Top EXCEPT !.pc = 20,
                                           !.n.Parts = singleWps(lit(p, p.pos, p.val))],
                            NextFr(p))
                  ELSE Call(p, At(Top, 21), Fr("wordParts"))
             [] Top.pc \in {20, 21} ->
                  Call([p EXCEPT !.quote = Top.old.quote],
                       [Top EXCEPT !.pc = 22,
                                   !.n.Parts = IF Top.pc = 21 THEN rv ELSE Top.n.Parts],
                       GotFr("dblQuote"))
             [] Top.pc = 22 ->
                  Ret(IF rv THEN p ELSE quoteErr(p, Top.n.Position, "dblQuote"), Top.n)
             \* ` : next, stmts and got have returned
             [] Top.pc = 23 -> Call(p, At(Top, 24), StmtsFr(p, {}))
             [] Top.pc = 24 ->
                  LET ps == postNested(p, Top.old)
                  IN  Call(ps, [Top EXCEPT !.pc = 25, !.n.Stmts = rv, !.n.Right = ps.pos],
                           GotFr("bckQuote"))
             [] Top.pc = 25 ->
                  Ret(IF rv THEN p ELSE quoteErr(p, Top.n.Left, "bckQuote"), Top.n)
             \* an extended glob: next has returned
             [] OTHER ->
                  Ret(IF Top.lparens # -1
                      THEN matchingErr(p, p.pos, Top.left, "rightParen")
                      ELSE p,
                      Top.n)

\* peekArithmEnd without its look at the byte after the )
peekArithmEndAny(ps) == ps.tok = "rightParen"

\* the end of couldBeArithm that leaves the cursor where the scan stopped
recoverTok(ps, oldTok, oldNpos, oldLines) ==
    [ps EXCEPT !.tok = oldTok, !.f.Lines = SubSeq(ps.f.Lines, 1, oldLines)]

\* couldBeArithm, `// recover state`
recover(ps, oldTok, oldNpos, oldLines) ==
    [ps EXCEPT !.tok = oldTok, !.npos = oldNpos,
               !.f.Lines = SubSeq(ps.f.Lines, 1, oldLines)]

\* func (p *parser) peekArithmEnd() bool
peekArithmEnd(ps) == ps.tok = "rightParen" /\ byteAt(ps.src, ps.npos) = ")"

\* func (p *parser) couldBeArithm() (could bool)
\*   pc 0: entry;  pc 1: next has returned, at the head of the loop tokLoop
couldBeArithm ==
    /\ Running("couldBeArithm")
    /\ LET done(could) ==
               Ret(recover(p, Top.oldTok, Top.oldNpos, Top.oldLines), could)
           more(n) == Call(p, [Top EXCEPT !.lparens = n], NextFr(p))
       IN  CASE Top.pc = 0 ->
                 Call(p, [fn |-> "couldBeArithm", pc |-> 1, oldTok |-> p.tok,
                          oldNpos |-> p.npos, oldLines |-> Len(p.f.Lines), lparens |-> 0],
                      NextFr(p))
             [] OTHER ->
                 IF p.tok = "_EOF" THEN done(FALSE)
                 ELSE IF p.tok \in {"leftParen", "dollParen"} THEN more(Top.lparens + 1)
                 ELSE IF p.tok \in {"dollDblParen", "dblLeftParen"} THEN more(Top.lparens + 2)
                 ELSE IF p.tok = "rightParen"
                 THEN (IF Top.lparens = 0 THEN done(peekArithmEnd(p))
                       ELSE more(Top.lparens - 1))
                 ELSE more(Top.lparens)

\* arithmOpLevel with the additive operators above the multiplicative ones
arithmOpLevelSwapped(op) ==
    CASE op = "comma" -> 0
      [] op \in {"addAssgn", "subAssgn", "mulAssgn", "quoAssgn", "remAssgn", "andAssgn",
                 "orAssgn", "xorAssgn", "shlAssgn", "shrAssgn"} -> 1
      [] op = "assgn" -> 2
      [] op \in {"quest", "colon"} -> 3
      [] op \in {"andAnd", "orOr"} -> 4
      [] op \in {"and", "or", "caret"} -> 5
      [] op \in {"equal", "nequal"} -> 6
      [] op \in {"rdrIn", "rdrOut", "lequal", "gequal"} -> 7
      [] op \in {"hdoc", "appOut"} -> 8
      [] op \in {"plus", "minus"} -> 10
      [] op \in {"star", "slash", "perc"} -> 9
      [] op = "power" -> 11
      [] OTHER -> -1

\* func arithmOpLevel(op BinAritOperator) int; the operators are tokens
arithmOpLevel(op) ==
    CASE op = "comma" -> 0
      [] op \in {"addAssgn", "subAssgn", "mulAssgn", "quoAssgn", "remAssgn", "andAssgn",
                 "orAssgn", "xorAssgn", "shlAssgn", "shrAssgn"} -> 1
      [] op = "assgn" -> 2
      [] op \in {"quest", "colon"} -> 3
      [] op \in {"andAnd", "orOr"} -> 4
      [] op \in {"and", "or", "caret"} -> 5
      [] op \in {"equal", "nequal"} -> 6
      [] op \in {"rdrIn", "rdrOut", "lequal", "gequal"} -> 7
      [] op \in {"hdoc", "appOut"} -> 8
      [] op \in {"plus", "minus"} -> 9
      [] op \in {"star", "slash", "perc"} -> 10
      [] op = "power" -> 11
      [] OTHER -> -1

\* func (p *parser) arithmExpr(ftok token, fpos Pos, level int, compact, tern bool) ArithmExpr
\*   pc 0: entry;  pc 1: the left operand has returned;  pc 2: next has
\*   returned after the operator;  pc 3: the right operand has returned
arithmExpr ==
    /\ Running("arithmExpr")
    /\ LET newLevel == IF ~Top.tern /\ p.tok = "colon" /\ p.quote \in allParamArith
                       THEN -1
                       ELSE arithmOpLevel(p.tok)
           b == [t |-> "BinaryArithm", OpPos |-> p.pos, Op |-> p.tok, X |-> rv, Y |-> Nil]
       IN  CASE Top.pc = 0 ->
                 IF p.tok = "_EOF" \/ peekArithmEnd(p) THEN Ret(p, Nil)
                 ELSE IF Top.level > 11
                 THEN Call(p, At(Top, 1), ArithmExprBaseFr(Top.ftok, Top.fpos, Top.compact))
                 ELSE Call(p, At(Top, 1),
                           ArithmExprFr(Top.ftok, Top.fpos, Top.level + 1, Top.compact, FALSE))
             [] Top.pc = 1 ->
                 IF Top.compact /\ p.spaced THEN Ret(p, rv)
                 ELSE IF newLevel < 0 /\ p.tok \in {"_Lit", "_LitWord"}
                 THEN Ret(curErr(p, "not a valid arithmetic operator: %s", <<p.val>>), Nil)
                 ELSE IF /\ newLevel < 0
                         /\ p.tok \notin {"rightParen", "_EOF"}
                         /\ p.quote = "arithmExpr"
                 THEN Ret(curErr(p, "not a valid arithmetic operator: %v", <<TokStr(p.tok)>>),
                          Nil)
                 ELSE IF newLevel < 0 \/ newLevel < Top.level THEN Ret(p, rv)
                 ELSE Call(p, [Top EXCEPT !.pc = 2, !.b = b, !.newLevel = newLevel], NextFr(p))
             [] Top.pc = 2 ->
                 Call(IF Top.compact /\ p.spaced
                      THEN followErrExp(p, Top.b.OpPos, TokStr(Top.b.Op))
                      ELSE p,
                      At(Top, 3),
                      ArithmExprFr(Top.b.Op, Top.b.OpPos, Top.newLevel, Top.compact,
                                   Top.b.Op = "quest"))
             [] OTHER ->
                 Ret(IF rv = Nil THEN followErrExp(p, Top.b.OpPos, TokStr(Top.b.Op)) ELSE p,
                     [Top.b EXCEPT !.Y = rv])

\* func (p *parser) arithmExprBase(ftok token, fpos Pos, compact bool) ArithmExpr
\*   pc 0: entry;  the other values are the places after the calls, in the
\*   order of the code;  post is the code after the switch
arithmExprBase ==
    /\ Running("arithmExprBase")
    /\ LET ue == [t |-> "UnaryArithm", Post |-> FALSE, OpPos |-> p.pos, Op |-> p.tok,
                  X |-> Nil]
           post(ps, x) ==
               IF Top.compact /\ ps.spaced THEN Ret(ps, x)
               ELSE IF ps.tok \in {"addAdd", "subSub"}
               THEN Call(ps, [Top EXCEPT !.pc = 9,
                                         !.n = [t |-> "UnaryArithm", Post |-> TRUE,
                                                OpPos |-> ps.pos, Op |-> ps.tok, X |-> x]],
                         NextFr(ps))
               ELSE Ret(ps, x)
       IN  CASE Top.pc = 0 ->
                 IF p.tok \in {"addAdd", "subSub", "exclMark"}
                 THEN Call(p, [Top EXCEPT !.pc = 1, !.n = ue], NextFr(p))
                 ELSE IF p.tok = "leftParen"
                 THEN Call(p, [Top EXCEPT !.pc = 3,
                                          !.n = [t |-> "ParenArithm", Lparen |-> p.pos,
                                                 Rparen |-> 0, X |-> Nil]],
                           NextFr(p))
                 ELSE IF p.tok \in {"plus", "minus"}
                 THEN Call(p, [Top EXCEPT !.pc = 6, !.n = ue], NextFr(p))
                 ELSE IF p.tok = "bckQuote" /\ p.quote = "arithmExprLet" THEN Ret(p, Nil)
                 ELSE Call(p, At(Top, 8), Fr("getWord"))
             [] Top.pc = 1 ->
                 Call(p, At(Top, 2), ArithmExprBaseFr(Top.n.Op, Top.n.OpPos, Top.compact))
             [] Top.pc = 2 ->
                 Ret(IF rv = Nil THEN followErrExp(p, Top.n.OpPos, TokStr(Top.n.Op)) ELSE p,
                     [Top.n EXCEPT !.X = rv])
             [] Top.pc = 3 ->
                 Call(p, At(Top, 4), ArithmExprFr("leftParen", Top.n.Lparen, 0, FALSE, FALSE))
             [] Top.pc = 4 ->
                 Call(IF rv = Nil
                      THEN posErr(p, Top.n.Lparen, "parentheses must enclose an expression",
                                  <<>>)
                      ELSE p,
                      [Top EXCEPT !.pc = 5, !.n.X = rv],
                      MatchedFr(Top.n.Lparen, "leftParen", "rightParen"))
             [] Top.pc = 5 -> post(p, [Top.n EXCEPT !.Rparen = rv])
             [] Top.pc = 6 ->
                 Call(IF Top.compact /\ p.spaced
                      THEN followErrExp(p, Top.n.OpPos, TokStr(Top.n.Op))
                      ELSE p,
                      At(Top, 7),
                      ArithmExprFr(Top.n.Op, Top.n.OpPos, 0, Top.compact, FALSE))
             [] Top.pc = 7 ->
                 post(IF rv = Nil THEN followErrExp(p, Top.n.OpPos, TokStr(Top.n.Op)) ELSE p,
                      [Top.n EXCEPT !.X = rv])
             [] Top.pc = 8 -> post(p, rv)
             [] OTHER -> Ret(p, Top.n)

\* func (p *parser) arithmEnd(ltok token, lpos Pos, old saveState) Pos
arithmEnd ==
    /\ Running("arithmEnd")
    /\ LET ps == IF peekArithmEnd(p) THEN [p EXCEPT !.npos = p.npos + 1]
                 ELSE matchingErr(p, Top.lpos, Top.ltok, "dblRightParen")
           ps1 == postNested(ps, Top.old)
       IN  CASE Top.pc = 0 ->
                 Call(ps1, [Top EXCEPT !.pc = 1, !.pos = ps1.pos], NextFr(ps1))
             [] OTHER -> Ret(p, Top.pos)

\* func (p *parser) paramExp() *ParamExp
\*   pc 0: entry;  pc 1: next has returned after ${;  pc 2: the switch on
\*   the parameter;  pc 3: the code after it;  pc 7: the switch on the
\*   operator;  pc 4: return pe;  the other values are the places after the
\*   calls, in the order of the code
paramExp ==
    /\ Running("paramExp")
    /\ LET pe == Top.pe
           bashOnly(ps, text) == IF bash(ps) THEN ps ELSE curErr(ps, text, <<>>)
           \* the switch on the parameter name
           name(ps, f) ==
               IF ps.tok \in {"_Lit", "_LitWord"}
               THEN Call(ps, [f EXCEPT !.pc = 3, !.pe.Param = lit(ps, ps.pos, ps.val)],
                         NextFr(ps))
               ELSE IF ps.tok \in {"dollar", "quest", "hash", "minus"}
               THEN Call(ps, [f EXCEPT !.pc = 3, !.pe.Param = lit(ps, ps.pos, TokStr(ps.tok))],
                         NextFr(ps))
               ELSE Goto(IF ~f.pe.Length
                         THEN posErr(ps, f.pe.Dollar, "parameter expansion requires a literal",
                                     <<>>)
                         ELSE ps,
                         At(f, 3))
           \* pe.Rbrace = p.pos; p.postNested(old); p.next(); return pe
           close(ps, f) ==
               LET ps1 == postNested(ps, f.old)
               IN  Call(ps1, [f EXCEPT !.pc = 4, !.pe.Rbrace = ps.pos], NextFr(ps1))
           \* the switch on the operator
           oper(ps, f) ==
               CASE ps.tok = "rightBrace" -> close(ps, f)
                 [] ps.tok \in {"slash", "dblSlash"} ->
                      LET ps1 == [bashOnly(ps, "search and replace is a bash feature")
                                  EXCEPT !.quote = "paramExpRepl"]
                          repl == [t |-> "Replace", All |-> ps.tok = "dblSlash",
                                   Orig |-> Nil, With |-> Nil]
                      IN  Call(ps1, [f EXCEPT !.pc = 8, !.pe.Repl = repl], NextFr(ps1))
                 [] ps.tok = "colon" ->
                      LET ps1 == [bashOnly(ps, "slicing is a bash feature")
                                  EXCEPT !.quote = "paramExpOff"]
                          slice == [t |-> "Slice", Offset |-> Nil, Length |-> Nil]
                      IN  Call(ps1, [f EXCEPT !.pc = 12, !.pe.Slice = slice,
                                              !.colonPos = ps.pos],
                               NextFr(ps1))
                 [] OTHER ->
                      LET ps0 == IF ps.tok \in {"caret", "dblCaret", "comma", "dblComma"}
                                 THEN bashOnly(ps, "case expansions are a bash feature")
                                 ELSE ps
                          ps1 == [ps0 EXCEPT !.quote = "paramExpExp"]
                          exp == [t |-> "Expansion", Op |-> ps0.tok, Word |-> Nil]
                      IN  Call(ps1, [f EXCEPT !.pc = 17, !.pe.Exp = exp], NextFr(ps1))
           \* colonPos = p.pos; p.quote = paramExpLen; p.got(colon)
           length(ps, f) ==
               Call([ps EXCEPT !.quote = "paramExpLen"],
                    [f EXCEPT !.pc = 15, !.colonPos = ps.pos], GotFr("colon"))
           \* p.postNested(old); pe.Rbrace = p.pos; p.matched(...); return pe
           final(ps, f) ==
               Call(postNested(ps, f.old), [f EXCEPT !.pc = 4, !.pe.Rbrace = ps.pos],
                    MatchedFr(f.pe.Dollar, "dollBrace", "rightBrace"))
       IN  CASE Top.pc = 0 ->
                 LET ps == preNested(p, "paramExpName")
                     new == [t |-> "ParamExp", Dollar |-> p.pos, Rbrace |-> 0,
                             Short |-> FALSE, Length |-> FALSE, Param |-> Nil,
                             Ind |-> Nil, Slice |-> Nil, Repl |-> Nil, Exp |-> Nil]
                 IN  Call(ps, [fn |-> "paramExp", pc |-> 1, pe |-> new, old |-> saveState(p),
                               lpos |-> 0, colonPos |-> 0],
                          NextFr(ps))
             [] Top.pc = 1 ->
                 LET ps == IF p.tok = "dblHash"
                           THEN [p EXCEPT !.tok = "hash", !.npos = p.npos - 1]
                           ELSE p
                 IN  IF /\ ps.tok = "hash"
                        /\ ps.npos < Len(ps.src)
                        /\ byteAt(ps.src, ps.npos) # "}"
                     THEN Call(ps, [Top EXCEPT !.pc = 2, !.pe.Length = TRUE], NextFr(ps))
                     ELSE name(ps, Top)
             [] Top.pc = 2 -> name(p, Top)
             [] Top.pc = 3 ->
                 IF p.tok = "rightBrace" THEN close(p, Top)
                 ELSE IF p.tok = "leftBrack"
                 THEN LET ps == [bashOnly(p, "arrays are a bash feature")
                                 EXCEPT !.quote = "paramExpInd"]
                      IN  Call(ps, [Top EXCEPT !.pc = 5, !.lpos = p.pos], NextFr(ps))
                 ELSE oper(p, Top)
             [] Top.pc = 4 -> Ret(p, pe)
             [] Top.pc = 5 ->
                 Call(IF p.tok = "star" THEN [p EXCEPT !.tok = "_LitWord", !.val = <<"*">>]
                      ELSE p,
                      At(Top, 6), ArithmExprFr("leftBrack", Top.lpos, 0, FALSE, FALSE))
             [] Top.pc = 6 ->
                 LET ps == IF rv = Nil THEN followErrExp(p, Top.lpos, <<"[">>) ELSE p
                 IN  Call([ps EXCEPT !.quote = "paramExpName"],
                          [Top EXCEPT !.pc = 7, !.pe.Ind = [t |-> "Index", Expr |-> rv]],
                          MatchedFr(Top.lpos, "leftBrack", "rightBrack"))
             [] Top.pc = 7 -> oper(p, Top)
             [] Top.pc = 8 -> Call(p, At(Top, 9), Fr("getWordOrEmpty"))
             [] Top.pc = 9 ->
                 IF p.tok = "slash"
                 THEN LET ps == [p EXCEPT !.quote = "paramExpExp"]
                      IN  Call(ps, [Top EXCEPT !.pc = 10, !.pe.Repl.Orig = rv], NextFr(ps))
                 ELSE Call(p, [Top EXCEPT !.pc = 11, !.pe.Repl.Orig = rv],
                           Fr("getWordOrEmpty"))
             [] Top.pc = 10 -> Call(p, At(Top, 11), Fr("getWordOrEmpty"))
             [] Top.pc = 11 -> final(p, [Top EXCEPT !.pe.Repl.With = rv])
             [] Top.pc = 12 ->
                 IF p.tok # "colon"
                 THEN Call(p, At(Top, 13), ArithmExprFr("colon", Top.colonPos, 0, FALSE, FALSE))
                 ELSE length(p, Top)
             [] Top.pc = 13 ->
                 length(IF rv = Nil THEN followErrExp(p, Top.colonPos, <<":">>) ELSE p,
                        [Top EXCEPT !.pe.Slice.Offset = rv])
             [] Top.pc = 15 ->
                 IF rv
                 THEN Call(p, At(Top, 16), ArithmExprFr("colon", Top.colonPos, 0, FALSE, FALSE))
                 ELSE final(p, Top)
             [] Top.pc = 16 ->
                 final(IF rv = Nil THEN followErrExp(p, Top.colonPos, <<":">>) ELSE p,
                       [Top EXCEPT !.pe.Slice.Length = rv])
             [] Top.pc = 17 -> Call(p, At(Top, 18), Fr("getWordOrEmpty"))
             [] OTHER -> final(p, [Top EXCEPT !.pe.Exp.Word = rv])

---------------------------------------------------------------------------
(* The words and texts of parser.go, as strings of bytes.                  *)

sBang == <<"!">>
sLbrace == <<"{">>
sRbrace == <<"}">>
sIf == <<"i", "f">>
sThen == <<"t", "h", "e", "n">>
sFi == <<"f", "i">>
sElif == <<"e", "l", "i", "f">>
sElse == <<"e", "l", "s", "e">>
sWhile == <<"w", "h", "i", "l", "e">>
sDo == <<"d", "o">>
sDone == <<"d", "o", "n", "e">>
sUntil == <<"u", "n", "t", "i", "l">>
sFor == <<"f", "o", "r">>
sIn == <<"i", "n">>
sCase == <<"c", "a", "s", "e">>
sEsac == <<"e", "s", "a", "c">>
sDblLbrack == <<"[", "[">>
sDblRbrack == <<"]", "]">>
sDeclare == <<"d", "e", "c", "l", "a", "r", "e">>
sLocal == <<"l", "o", "c", "a", "l">>
sExport == <<"e", "x", "p", "o", "r", "t">>
sReadonly == <<"r", "e", "a", "d", "o", "n", "l", "y">>
sTypeset == <<"t", "y", "p", "e", "s", "e", "t">>
sNameref == <<"n", "a", "m", "e", "r", "e", "f">>
sEval == <<"e", "v", "a", "l">>
sCoproc == <<"c", "o", "p", "r", "o", "c">>
sLet == <<"l", "e", "t">>
sFunction == <<"f", "u", "n", "c", "t", "i", "o", "n">>
sIfCond == <<"i", "f", " ", "<", "c", "o", "n", "d", ">">>
sElifCond == <<"e", "l", "i", "f", " ", "<", "c", "o", "n", "d", ">">>
sWhileCond == <<"w", "h", "i", "l", "e", " ", "<", "c", "o", "n", "d", ">">>
sUntilCond == <<"u", "n", "t", "i", "l", " ", "<", "c", "o", "n", "d", ">">>
sForFoo == <<"f", "o", "r", " ", "f", "o", "o">>
sForFooIn ==
    <<"f", "o", "r", " ", "f", "o", "o", " ", "[", "i", "n", " ", "w", "o", "r", "d", "s", "]">>
sCaseX == <<"c", "a", "s", "e", " ", "x">>
sFooParen == <<"f", "o", "o", "(">>
sFooParens == <<"f", "o", "o", "(", ")">>
sExpression == <<"e", "x", "p", "r", "e", "s", "s", "i", "o", "n">>
aStatement == <<"a", " ", "s", "t", "a", "t", "e", "m", "e", "n", "t">>
aLiteral == <<"a", " ", "l", "i", "t", "e", "r", "a", "l">>
sInOrNewline ==
    <<"\"", "i", "n", "\"", ",", " ", ";", " ", "o", "r", " ", "a", " ", "n", "e", "w", "l", "i", "n", "e">>
sWords == <<"w", "o", "r", "d", "s">>

\* func stopToken(tok token) bool
stopToken(tok) ==
    tok \in {"_EOF", "semicolon", "and", "or", "andAnd", "orOr", "pipeAll", "dblSemicolon",
             "semiFall", "dblSemiFall", "rightParen"}

\* func (p *parser) validIdent() bool
validIdent(ps) ==
    /\ ps.asPos > 0
    /\ \A i \in 1..ps.asPos :
         LET c == ps.val[i]
         IN  \/ c \in Lower
             \/ c \in Upper
             \/ c = "_"
             \/ i > 1 /\ c \in Digit
             \/ i > 1 /\ c \in {"[", "]"} /\ bash(ps)

\* func litRedir(src []byte, npos int) bool
litRedir(src, npos) ==
    npos + 1 < Len(src) /\ byteAt(src, npos) \in {">", "<"} /\ byteAt(src, npos + 1) # "("

\* the tokens that are redirection operators
redirOps ==
    {"rdrOut", "appOut", "rdrIn", "dplIn", "dplOut", "clbOut", "rdrInOut", "hdoc",
     "dashHdoc", "wordHdoc", "rdrAll", "appAll"}

\* func (p *parser) peekRedir() bool
peekRedir(ps) ==
    IF ps.tok = "_LitWord" THEN litRedir(ps.src, ps.npos) ELSE ps.tok \in redirOps

\* bashDeclareWord that takes every word for a declaration builtin
bashDeclareWordAny(s) == TRUE

\* func bashDeclareWord(s string) bool
bashDeclareWord(s) == s \in {sDeclare, sLocal, sExport, sReadonly, sTypeset, sNameref}

\* func isBashCompoundCommand(tok token, val string) bool
isBashCompoundCommand(tok, val) ==
    \/ tok \in {"leftParen", "dblLeftParen"}
    \/ /\ tok = "_LitWord"
       /\ \/ val \in {sLbrace, sIf, sWhile, sUntil, sFor, sCase, sDblLbrack, sEval, sCoproc,
                      sLet, sFunction}
          \/ bashDeclareWord(val)

\* func (p *parser) getAssign() *Assign
\*   pc 0: entry;  pc 1: next has returned;  pc 2: the head of the loop over
\*   the elements of an array;  pc 3: getWord has returned in the loop;
\*   pc 4: matched has returned;  pc 5: getWord has returned for the value
getAssign ==
    /\ Running("getAssign")
    /\ LET asPos == p.asPos
           app == byteAt(p.val, asPos) = "+"
           asPos2 == IF app THEN asPos + 1 ELSE asPos
           name == [lit(p, p.pos, Slice(p.val, 0, asPos)) EXCEPT !.ValueEnd = p.pos + asPos]
           start == lit(p, p.pos + 1, From(p.val, asPos2 + 1))
           as == [t |-> "Assign", Name |-> name, Append |-> app,
                  Value |-> IF start.Value # <<>>
                            THEN word(singleWps([start EXCEPT !.ValuePos = @ + asPos2]))
                            ELSE Nil]
           elems(ps, f) ==
               IF ps.tok # "_EOF" /\ ps.tok # "rightParen"
               THEN Call(ps, At(f, 3), Fr("getWord"))
               ELSE Call(ps, At(f, 4), MatchedFr(f.ae.Lparen, "leftParen", "rightParen"))
       IN  CASE Top.pc = 0 ->
                 Call(p, [fn |-> "getAssign", pc |-> 1, as |-> as,
                          empty |-> start.Value = <<>>, ae |-> Nil],
                      NextFr(p))
             [] Top.pc = 1 ->
                 IF p.spaced THEN Ret(p, Top.as)
                 ELSE IF Top.empty /\ p.tok = "leftParen"
                 THEN LET ps == IF bash(p) THEN p
                                ELSE curErr(p, "arrays are a bash feature", <<>>)
                          ae == [t |-> "ArrayExpr", Lparen |-> ps.pos, Rparen |-> 0,
                                 List |-> <<>>]
                      IN  Call(ps, [Top EXCEPT !.pc = 2, !.ae = ae], NextFr(ps))
                 ELSE IF ~p.newLine /\ ~stopToken(p.tok)
                 THEN Call(p, At(Top, 5), Fr("getWord"))
                 ELSE Ret(p, Top.as)
             [] Top.pc = 2 -> elems(p, Top)
             [] Top.pc = 3 ->
                 IF rv = Nil
                 THEN elems(curErr(p, "array elements must be words", <<>>), Top)
                 ELSE elems(p, [Top EXCEPT !.ae.List = Append(@, rv)])
             [] Top.pc = 4 ->
                 Ret(p, [Top.as EXCEPT !.Value = word(singleWps([Top.ae EXCEPT !.Rparen = rv]))])
             [] OTHER ->
                 IF rv = Nil THEN Ret(p, Top.as)
                 ELSE IF Top.as.Value = Nil THEN Ret(p, [Top.as EXCEPT !.Value = rv])
                 ELSE Ret(p, [Top.as EXCEPT !.Value.Parts = @ \o rv.Parts])

\* func (p *parser) doRedirect(s *Stmt): it returns the Redirect, which the
\* caller appends to s.Redirs
\*   pc 0: entry;  pc 1: getLit has returned;  pc 2: next has returned;
\*   pc 3, 4: followWordTok and next have returned for a heredoc;
\*   pc 5: followWordTok has returned for another redirection
doRedirect ==
    /\ Running("doRedirect")
    /\ LET r == [t |-> "Redirect", N |-> rv, Op |-> p.tok, OpPos |-> p.pos, Word |-> Nil,
                 Hdoc |-> Nil]
           id == Len(p.f.R) + 1
           sameLine(ps, text) == IF ps.newLine THEN curErr(ps, text, <<>>) ELSE ps
           red == p.f.R[Top.r]
       IN  CASE Top.pc = 0 ->
                 Call(p, [fn |-> "doRedirect", pc |-> 1, r |-> 0, old |-> "noState"],
                      Fr("getLit"))
             [] Top.pc = 1 ->
                 LET ps == [p EXCEPT !.f.R = Append(@, r)]
                 IN  Call(ps, [Top EXCEPT !.pc = 2, !.r = id], NextFr(ps))
             [] Top.pc = 2 ->
                 IF red.Op \in {"hdoc", "dashHdoc"}
                 THEN LET ps == sameLine([p EXCEPT !.quote = "hdocWord"],
                                         "heredoc stop word must be on the same line")
                      IN  Call(appendHdoc(ps, Top.r), [Top EXCEPT !.pc = 3, !.old = p.quote],
                               FollowWordTokFr(red.Op, red.OpPos))
                 ELSE Call(sameLine(p, "redirect word must be on the same line"),
                           At(Top, 5), FollowWordTokFr(red.Op, red.OpPos))
             [] Top.pc = 3 ->
                 LET ps == [p EXCEPT !.f.R[Top.r].Word = rv, !.quote = Top.old]
                 IN  Call(ps, At(Top, 4), NextFr(ps))
             [] Top.pc = 4 -> Ret(p, Top.r)
             [] OTHER -> Ret([p EXCEPT !.f.R[Top.r].Word = rv], Top.r)

\* the tokens that start a word that is more than a literal-word
wordStart ==
    {"_Lit", "dollBrace", "dollDblParen", "dollParen", "dollar", "cmdIn", "cmdOut",
     "sglQuote", "dollSglQuote", "dblQuote", "dollDblQuote", "dollBrack", "globQuest",
     "globStar", "globPlus", "globAt", "globExcl"}

GotStmtPipeFr(s) ==
    [fn |-> "gotStmtPipe", pc |-> 0, s |-> s, name |-> Nil, w |-> Nil, b |-> Nil]

\* func (p *parser) getStmt(readEnd bool) (s *Stmt, gotEnd bool)
\*   pc 0: entry;  pc 1: gotRsrv("!") has returned;  pc 2: getAssign has
\*   returned;  pc 3: doRedirect has returned;  pc 4: next has returned
\*   after a ; ;  pc 5: gotStmtPipe has returned;  pc 6, 7, 8: next, getStmt
\*   and gotSameLine have returned after && or || ;  pc 9: next has returned
\*   after &
getStmt ==
    /\ Running("getStmt")
    /\ LET out(ps, f) == Ret(ps, [s |-> f.s, gotEnd |-> f.gotEnd])
           pipe(ps, f) == Call(ps, At(f, 5), GotStmtPipeFr(f.s))
           preLoop(ps, f) ==
               IF ps.tok \in {"_Lit", "_LitWord"}
               THEN IF validIdent(ps) THEN Call(ps, At(f, 2), Fr("getAssign"))
                    ELSE IF litRedir(ps.src, ps.npos) THEN Call(ps, At(f, 3), Fr("doRedirect"))
                    ELSE pipe(ps, f)
               ELSE IF ps.tok \in redirOps THEN Call(ps, At(f, 3), Fr("doRedirect"))
               ELSE pipe(ps, f)
           \* the second switch of the loop preLoop
           again(ps, f) ==
               IF ps.newLine \/ ps.tok = "_EOF" THEN out(ps, f)
               ELSE IF ps.tok = "semicolon"
               THEN IF f.readEnd
                    THEN Call(ps, [f EXCEPT !.pc = 4, !.s.SemiPos = ps.pos], NextFr(ps))
                    ELSE out(ps, f)
               ELSE preLoop(ps, f)
           bin == [t |-> "BinaryCmd", OpPos |-> p.pos, Op |-> p.tok, X |-> rv, Y |-> Nil]
       IN  CASE Top.pc = 0 -> Call(p, At(Top, 1), GotRsrvFr(sBang))
             [] Top.pc = 1 -> preLoop(p, [Top EXCEPT !.s.Negated = rv])
             [] Top.pc = 2 -> again(p, [Top EXCEPT !.s.Assigns = Append(@, rv)])
             [] Top.pc = 3 -> again(p, [Top EXCEPT !.s.Redirs = Append(@, rv)])
             [] Top.pc = 4 -> out(p, [Top EXCEPT !.gotEnd = TRUE])
             [] Top.pc = 5 ->
                 IF rv = Nil THEN out(p, [Top EXCEPT !.s = Nil])
                 ELSE IF p.tok \in {"andAnd", "orOr"}
                 THEN Call(p, [Top EXCEPT !.pc = 6, !.s = rv, !.b = bin], NextFr(p))
                 ELSE IF p.tok = "and"
                 THEN Call(p, [Top EXCEPT !.pc = 9, !.s = rv], NextFr(p))
                 ELSE IF p.tok = "semicolon" /\ ~p.newLine /\ Top.readEnd
                 THEN Call(p, [Top EXCEPT !.pc = 4, !.s = [rv EXCEPT !.SemiPos = p.pos]],
                           NextFr(p))
                 ELSE out(p, [Top EXCEPT !.s = rv])
             [] Top.pc = 6 -> Call(p, At(Top, 7), GetStmtFr(p, FALSE))
             [] Top.pc = 7 ->
                 LET ps == IF rv.s = Nil
                           THEN followErr(p, Top.b.OpPos, TokStr(Top.b.Op), aStatement)
                           ELSE p
                     f == [Top EXCEPT !.s = [stmt(Top.s.Position)
                                             EXCEPT !.Cmd = [Top.b EXCEPT !.Y = rv.s]]]
                 IN  IF Top.readEnd THEN Call(ps, At(f, 8), GotSameLineFr("semicolon"))
                     ELSE out(ps, f)
             [] Top.pc = 8 -> out(p, [Top EXCEPT !.gotEnd = rv])
             [] OTHER -> out(p, [Top EXCEPT !.s.Background = TRUE, !.gotEnd = TRUE])

\* func (p *parser) gotStmtPipe(s *Stmt) *Stmt
\*   pc 0: entry;  pc 1: the call that parses the command has returned;
\*   pc 2, 3, 4: next, gotSameLine and follow have returned after a name;
\*   pc 5: callExpr has returned;  pc 6, 7: wordParts and gotSameLine have
\*   returned;  pc 8: doRedirect has returned;  pc 9, 10: next and
\*   gotStmtPipe have returned after | or |&
gotStmtPipe ==
    /\ Running("gotStmtPipe")
    /\ LET cmd(fn) == Call(p, At(Top, 1), Fr(fn))
           \* the code after the switch
           redirs(ps, f) ==
               IF ~ps.newLine /\ peekRedir(ps) THEN Call(ps, At(f, 8), Fr("doRedirect"))
               ELSE IF /\ f.s.Cmd = Nil
                       /\ Len(f.s.Redirs) = 0
                       /\ ~f.s.Negated
                       /\ Len(f.s.Assigns) = 0
               THEN Ret(ps, Nil)
               ELSE IF ps.tok \in {"or", "pipeAll"}
               THEN Call(ps, [f EXCEPT !.pc = 9,
                                       !.b = [t |-> "BinaryCmd", OpPos |-> ps.pos,
                                              Op |-> ps.tok, X |-> f.s, Y |-> Nil]],
                         NextFr(ps))
               ELSE Ret(ps, f.s)
           v == p.val
       IN  CASE Top.pc = 0 ->
                 (CASE p.tok = "leftParen" -> cmd("subshell")
                    [] p.tok = "dblLeftParen" -> cmd("arithmExpCmd")
                    [] p.tok = "_LitWord" ->
                         (CASE v = sRbrace ->
                                 redirs(curErr(p, "%s can only be used to close a block",
                                               <<v>>), Top)
                            [] v = sLbrace -> cmd("block")
                            [] v = sIf -> cmd("ifClause")
                            [] v = sWhile -> cmd("whileClause")
                            [] v = sUntil -> cmd("untilClause")
                            [] v = sFor -> cmd("forClause")
                            [] v = sCase -> cmd("caseClause")
                            [] bash(p) /\ v = sDblLbrack -> cmd("testClause")
                            [] bash(p) /\ bashDeclareWord(v) -> cmd("declClause")
                            [] bash(p) /\ v = sEval -> cmd("evalClause")
                            [] bash(p) /\ v = sCoproc -> cmd("coprocClause")
                            [] bash(p) /\ v = sLet -> cmd("letClause")
                            [] bash(p) /\ v = sFunction -> cmd("bashFuncDecl")
                            [] OTHER ->
                                 Call(p, [Top EXCEPT !.pc = 2, !.name = lit(p, p.pos, v)],
                                      NextFr(p)))
                    [] p.tok = "bckQuote" /\ p.quote = "subCmdBckquo" -> Ret(p, Top.s)
                    [] p.tok \in wordStart \cup {"bckQuote"} ->
                         Call(p, At(Top, 6), Fr("wordParts"))
                    [] OTHER -> redirs(p, Top))
             [] Top.pc = 1 -> redirs(p, [Top EXCEPT !.s.Cmd = rv])
             [] Top.pc = 2 -> Call(p, At(Top, 3), GotSameLineFr("leftParen"))
             [] Top.pc = 3 ->
                 IF rv
                 THEN Call(p, At(Top, 4), FollowFr(Top.name.ValuePos, sFooParen, "rightParen"))
                 ELSE Call(p, At(Top, 5),
                           [fn |-> "callExpr", pc |-> 0, w |-> word(singleWps(Top.name))])
             [] Top.pc = 4 ->
                 Call(p, At(Top, 1),
                      [fn |-> "funcDecl", pc |-> 0, name |-> Top.name,
                       pos |-> Top.name.ValuePos])
             [] Top.pc = 5 ->
                 redirs(p, [Top EXCEPT !.s.Cmd = rv.ce, !.s.Redirs = @ \o rv.redirs])
             [] Top.pc = 6 ->
                 Call(p, [Top EXCEPT !.pc = 7, !.w = word(rv)], GotSameLineFr("leftParen"))
             [] Top.pc = 7 ->
                 LET w == Top.w
                     rawName == Slice(p.src, wordPos(w) - 1, partEnd(w.Parts[Len(w.Parts)]) - 1)
                 IN  Call(IF rv /\ p.err = NoErr
                          THEN posErr(p, wordPos(w), "invalid func name: %q", <<rawName>>)
                          ELSE p,
                          At(Top, 5), [fn |-> "callExpr", pc |-> 0, w |-> w])
             [] Top.pc = 8 -> redirs(p, [Top EXCEPT !.s.Redirs = Append(@, rv)])
             [] Top.pc = 9 -> Call(p, At(Top, 10), GotStmtPipeFr(stmt(p.pos)))
             [] OTHER ->
                 Ret(IF rv = Nil THEN followErr(p, Top.b.OpPos, TokStr(Top.b.Op), aStatement)
                     ELSE p,
                     [stmt(Top.s.Position) EXCEPT !.Cmd = [Top.b EXCEPT !.Y = rv]])

\* the words that end a statement list
stopWords ==
    {sThen, sDo, sFi, sDone, sElif, sElse, sEsac, sRbrace}

\* callExpr that also returns at a word that ends a statement list
callEndAtStop(ps) ==
    \/ ps.tok \in {"_EOF", "semicolon", "and", "or", "andAnd", "orOr", "pipeAll",
                   "dblSemicolon", "semiFall", "dblSemiFall"}
    \/ ps.tok = "_LitWord" /\ ps.val \in stopWords

\* callExpr: the tokens at which it returns ce
callEnd(ps) ==
    ps.tok \in {"_EOF", "semicolon", "and", "or", "andAnd", "orOr", "pipeAll",
                "dblSemicolon", "semiFall", "dblSemiFall"}

\* func (p *parser) callExpr(s *Stmt, w *Word) *CallExpr: it returns the
\* CallExpr and the Redirects it read, which the caller appends to s.Redirs
\*   pc 0: entry;  pc 1: doRedirect has returned;  pc 2: next has returned;
\*   pc 3: wordParts has returned
callExpr ==
    /\ Running("callExpr")
    /\ LET out(ps, f) == Ret(ps, [ce |-> [t |-> "CallExpr", Args |-> f.Args],
                                  redirs |-> f.redirs])
           loop(ps, f) ==
               IF ps.newLine THEN out(ps, f)
               ELSE IF callEnd(ps) THEN out(ps, f)
               ELSE IF ps.tok = "_LitWord"
               THEN IF litRedir(ps.src, ps.npos) THEN Call(ps, At(f, 1), Fr("doRedirect"))
                    ELSE Call(ps, [f EXCEPT !.pc = 2,
                                            !.Args = Append(@, word(singleWps(
                                                         lit(ps, ps.pos, ps.val))))],
                              NextFr(ps))
               ELSE IF ps.tok = "bckQuote" /\ ps.quote = "subCmdBckquo" THEN out(ps, f)
               ELSE IF ps.tok \in wordStart \cup {"bckQuote"}
               THEN Call(ps, At(f, 3), Fr("wordParts"))
               ELSE IF ps.tok \in redirOps THEN Call(ps, At(f, 1), Fr("doRedirect"))
               ELSE IF ps.tok = "rightParen" /\ ps.quote = "subCmd" THEN out(ps, f)
               ELSE Goto(curErr(ps, "a command can only contain words and redirects", <<>>),
                         At(f, 2))
       IN  CASE Top.pc = 0 ->
                 loop(p, [fn |-> "callExpr", pc |-> 0, Args |-> <<Top.w>>, redirs |-> <<>>])
             [] Top.pc = 1 -> loop(p, [Top EXCEPT !.redirs = Append(@, rv)])
             [] Top.pc = 2 -> loop(p, Top)
             [] OTHER -> loop(p, [Top EXCEPT !.Args = Append(@, word(rv))])

\* func (p *parser) funcDecl(name *Lit, pos Pos) *FuncDecl
funcDecl ==
    /\ Running("funcDecl")
    /\ CASE Top.pc = 0 -> Call(p, At(Top, 1), GetStmtFr(p, FALSE))
         [] OTHER ->
              Ret(IF rv.s = Nil THEN followErr(p, Top.pos, sFooParens, aStatement) ELSE p,
                  [t |-> "FuncDecl", Position |-> Top.pos,
                   BashStyle |-> Top.pos # Top.name.ValuePos, Name |-> Top.name,
                   Body |-> rv.s])

\* func (p *parser) subshell() *Subshell
\*   pc 0: entry;  pc 1, 2, 3: next, stmts and matched have returned
subshell ==
    /\ Running("subshell")
    /\ CASE Top.pc = 0 ->
              LET ps == preNested(p, "subCmd")
              IN  Call(ps, [fn |-> "subshell", pc |-> 1, old |-> saveState(p),
                            s |-> [t |-> "Subshell", Lparen |-> p.pos, Rparen |-> 0,
                                   Stmts |-> <<>>]],
                       NextFr(ps))
         [] Top.pc = 1 -> Call(p, At(Top, 2), StmtsFr(p, {}))
         [] Top.pc = 2 ->
              Call(postNested(p, Top.old), [Top EXCEPT !.pc = 3, !.s.Stmts = rv],
                   MatchedFr(Top.s.Lparen, "leftParen", "rightParen"))
         [] OTHER -> Ret(p, [Top.s EXCEPT !.Rparen = rv])

\* func (p *parser) arithmExpCmd() Command
\*   pc 0: entry;  pc 1: couldBeArithm has returned;  pc 2: the subshell read
\*   in place of (( has returned;  pc 3, 4, 5: next, arithmExpr and arithmEnd
\*   have returned
arithmExpCmd ==
    /\ Running("arithmExpCmd")
    /\ CASE Top.pc = 0 ->
              Call(preNested(p, "arithmExprCmd"),
                   [fn |-> "arithmExpCmd", pc |-> 1, old |-> saveState(p),
                    ar |-> [t |-> "ArithmCmd", Left |-> p.pos, Right |-> 0, X |-> Nil]],
                   Fr("couldBeArithm"))
         [] Top.pc = 1 ->
              IF ~rv
              THEN Call([postNested(p, Top.old)
                         EXCEPT !.npos = Top.ar.Left, !.tok = "leftParen", !.pos = Top.ar.Left],
                        At(Top, 2), Fr("subshell"))
              ELSE Call(p, At(Top, 3), NextFr(p))
         [] Top.pc = 2 ->
              Ret(IF p.err # NoErr
                  THEN matchingErr([p EXCEPT !.err = NoErr], Top.ar.Left,
                                   "dblLeftParen", "dblRightParen")
                  ELSE p,
                  rv)
         [] Top.pc = 3 ->
              Call(p, At(Top, 4), ArithmExprFr("dblLeftParen", Top.ar.Left, 0, FALSE, FALSE))
         [] Top.pc = 4 ->
              Call(p, [Top EXCEPT !.pc = 5, !.ar.X = rv],
                   ArithmEndFr("dblLeftParen", Top.ar.Left, Top.old))
         [] OTHER -> Ret(p, [Top.ar EXCEPT !.Right = rv])

\* func (p *parser) block() *Block
\*   pc 0: entry;  pc 1, 2, 3: next, stmts and gotRsrv have returned
block ==
    /\ Running("block")
    /\ CASE Top.pc = 0 ->
              Call(p, [fn |-> "block", pc |-> 1,
                       b |-> [t |-> "Block", Lbrace |-> p.pos, Rbrace |-> 0, Stmts |-> <<>>]],
                   NextFr(p))
         [] Top.pc = 1 -> Call(p, At(Top, 2), StmtsFr(p, {sRbrace}))
         [] Top.pc = 2 ->
              Call(p, [Top EXCEPT !.pc = 3, !.b.Stmts = rv, !.b.Rbrace = p.pos],
                   GotRsrvFr(sRbrace))
         [] OTHER ->
              Ret(IF rv THEN p ELSE matchingErrStr(p, Top.b.Lbrace, sLbrace, sRbrace), Top.b)

\* func (p *parser) ifClause() *IfClause
\*   pc 0: entry;  pc 1 to 4: next, followStmts, followRsrv and followStmts
\*   have returned;  pc 5: gotRsrv("elif") has returned;  pc 6 to 8: the
\*   calls for an elif have returned;  pc 9: gotRsrv("else") has returned;
\*   pc 10: followStmts has returned for the else;  pc 11: stmtEnd has
\*   returned
ifClause ==
    /\ Running("ifClause")
    /\ LET ic == Top.ic
           elf == Top.elf
           thenStops == {sFi, sElif, sElse}
           end(ps, f) == Call(ps, At(f, 11), StmtEndFr(f.ic.If, sIf, sFi))
       IN  CASE Top.pc = 0 ->
                 Call(p, [fn |-> "ifClause", pc |-> 1, elf |-> Nil, pos |-> 0,
                          ic |-> [t |-> "IfClause", If |-> p.pos, Then |-> 0, Fi |-> 0,
                                  Else |-> 0, CondStmts |-> <<>>, ThenStmts |-> <<>>,
                                  Elifs |-> <<>>, ElseStmts |-> <<>>]],
                      NextFr(p))
             [] Top.pc = 1 -> Call(p, At(Top, 2), FollowStmtsFr(sIf, ic.If, {sThen}))
             [] Top.pc = 2 ->
                 Call(p, [Top EXCEPT !.pc = 3, !.ic.CondStmts = rv],
                      FollowRsrvFr(ic.If, sIfCond, sThen))
             [] Top.pc = 3 ->
                 Call(p, [Top EXCEPT !.pc = 4, !.ic.Then = rv],
                      FollowStmtsFr(sThen, rv, thenStops))
             [] Top.pc = 4 ->
                 Call(p, [Top EXCEPT !.pc = 5, !.ic.ThenStmts = rv, !.pos = p.pos],
                      GotRsrvFr(sElif))
             [] Top.pc = 5 ->
                 IF rv
                 THEN Call(p, [Top EXCEPT !.pc = 6,
                                          !.elf = [t |-> "Elif", Elif |-> Top.pos, Then |-> 0,
                                                   CondStmts |-> <<>>, ThenStmts |-> <<>>]],
                           FollowStmtsFr(sElif, Top.pos, {sThen}))
                 ELSE Call(p, [Top EXCEPT !.pc = 9, !.pos = p.pos], GotRsrvFr(sElse))
             [] Top.pc = 6 ->
                 Call(p, [Top EXCEPT !.pc = 7, !.elf.CondStmts = rv],
                      FollowRsrvFr(elf.Elif, sElifCond, sThen))
             [] Top.pc = 7 ->
                 Call(p, [Top EXCEPT !.pc = 8, !.elf.Then = rv],
                      FollowStmtsFr(sThen, rv, thenStops))
             [] Top.pc = 8 ->
                 Call(p, [Top EXCEPT !.pc = 5, !.pos = p.pos,
                                     !.ic.Elifs = Append(@, [elf EXCEPT !.ThenStmts = rv])],
                      GotRsrvFr(sElif))
             [] Top.pc = 9 ->
                 IF rv
                 THEN Call(p, [Top EXCEPT !.pc = 10, !.ic.Else = Top.pos],
                           FollowStmtsFr(sElse, Top.pos, {sFi}))
                 ELSE end(p, Top)
             [] Top.pc = 10 -> end(p, [Top EXCEPT !.ic.ElseStmts = rv])
             [] OTHER -> Ret(p, [ic EXCEPT !.Fi = rv])

\* func (p *parser) whileClause() *WhileClause
\*   pc 0: entry;  pc 1 to 5: next, followStmts, followRsrv, followStmts and
\*   stmtEnd have returned
whileClause ==
    /\ Running("whileClause")
    /\ LET wc == Top.wc
       IN  CASE Top.pc = 0 ->
                 Call(p, [fn |-> "whileClause", pc |-> 1,
                          wc |-> [t |-> "WhileClause", While |-> p.pos, Do |-> 0, Done |-> 0,
                                  CondStmts |-> <<>>, DoStmts |-> <<>>]],
                      NextFr(p))
             [] Top.pc = 1 -> Call(p, At(Top, 2), FollowStmtsFr(sWhile, wc.While, {sDo}))
             [] Top.pc = 2 ->
                 Call(p, [Top EXCEPT !.pc = 3, !.wc.CondStmts = rv],
                      FollowRsrvFr(wc.While, sWhileCond, sDo))
             [] Top.pc = 3 ->
                 Call(p, [Top EXCEPT !.pc = 4, !.wc.Do = rv], FollowStmtsFr(sDo, rv, {sDone}))
             [] Top.pc = 4 ->
                 Call(p, [Top EXCEPT !.pc = 5, !.wc.DoStmts = rv],
                      StmtEndFr(wc.While, sWhile, sDone))
             [] OTHER -> Ret(p, [wc EXCEPT !.Done = rv])

\* func (p *parser) untilClause() *UntilClause
\*   pc 0: entry;  pc 1 to 5: next, followStmts, followRsrv, followStmts and
\*   stmtEnd have returned
untilClause ==
    /\ Running("untilClause")
    /\ LET uc == Top.uc
       IN  CASE Top.pc = 0 ->
                 Call(p, [fn |-> "untilClause", pc |-> 1,
                          uc |-> [t |-> "UntilClause", Until |-> p.pos, Do |-> 0, Done |-> 0,
                                  CondStmts |-> <<>>, DoStmts |-> <<>>]],
                      NextFr(p))
             [] Top.pc = 1 -> Call(p, At(Top, 2), FollowStmtsFr(sUntil, uc.Until, {sDo}))
             [] Top.pc = 2 ->
                 Call(p, [Top EXCEPT !.pc = 3, !.uc.CondStmts = rv],
                      FollowRsrvFr(uc.Until, sUntilCond, sDo))
             [] Top.pc = 3 ->
                 Call(p, [Top EXCEPT !.pc = 4, !.uc.Do = rv], FollowStmtsFr(sDo, rv, {sDone}))
             [] Top.pc = 4 ->
                 Call(p, [Top EXCEPT !.pc = 5, !.uc.DoStmts = rv],
                      StmtEndFr(uc.Until, sUntil, sDone))
             [] OTHER -> Ret(p, [uc EXCEPT !.Done = rv])

\* func (p *parser) forClause() *ForClause
\*   pc 0: entry;  pc 1 to 5: next, loop, followRsrv, followStmts and stmtEnd
\*   have returned
forClause ==
    /\ Running("forClause")
    /\ LET fc == Top.fc
       IN  CASE Top.pc = 0 ->
                 Call(p, [fn |-> "forClause", pc |-> 1,
                          fc |-> [t |-> "ForClause", For |-> p.pos, Do |-> 0, Done |-> 0,
                                  Loop |-> Nil, DoStmts |-> <<>>]],
                      NextFr(p))
             [] Top.pc = 1 -> Call(p, At(Top, 2), [fn |-> "loop", pc |-> 0, forPos |-> fc.For])
             [] Top.pc = 2 ->
                 Call(p, [Top EXCEPT !.pc = 3, !.fc.Loop = rv],
                      FollowRsrvFr(fc.For, sForFooIn, sDo))
             [] Top.pc = 3 ->
                 Call(p, [Top EXCEPT !.pc = 4, !.fc.Do = rv], FollowStmtsFr(sDo, rv, {sDone}))
             [] Top.pc = 4 ->
                 Call(p, [Top EXCEPT !.pc = 5, !.fc.DoStmts = rv],
                      StmtEndFr(fc.For, sFor, sDone))
             [] OTHER -> Ret(p, [fc EXCEPT !.Done = rv])

\* func (p *parser) loop(forPos Pos) Loop
\*   C-style loop: pc 1: next has returned;  pc 2: Init was read;  pc 3, 5:
\*   follow has returned;  pc 4: Cond was read;  pc 6: Post was read;  pc 7:
\*   arithmEnd has returned;  pc 8: gotSameLine has returned
\*   word iteration: pc 10: getLit has returned;  pc 11: gotRsrv("in") has
\*   returned;  pc 12: the head of the word loop;  pc 13: getWord has
\*   returned;  pc 14: gotSameLine has returned;  pc 15: got has returned
loop ==
    /\ Running("loop")
    /\ LET cl == Top.cl
           wi == Top.wi
           semi(ps, f, pc) ==
               Call(ps, [f EXCEPT !.pc = pc, !.scPos = ps.pos],
                    FollowFr(ps.pos, sExpression, "semicolon"))
           expr(ps, f, pc, ftok, fpos, else) ==
               IF ps.tok # "semicolon"
               THEN Call(ps, At(f, pc), ArithmExprFr(ftok, fpos, 0, FALSE, FALSE))
               ELSE else
           end(ps, f) ==
               Call(ps, At(f, 7), ArithmEndFr("dblLeftParen", f.cl.Lparen, f.old))
       IN  CASE Top.pc = 0 ->
                 LET f == [fn |-> "loop", pc |-> 0, forPos |-> Top.forPos, scPos |-> 0,
                           old |-> saveState(p),
                           cl |-> [t |-> "CStyleLoop", Lparen |-> p.pos, Rparen |-> 0,
                                   Init |-> Nil, Cond |-> Nil, Post |-> Nil],
                           wi |-> [t |-> "WordIter", Name |-> Nil, List |-> <<>>]]
                     ps == preNested(p, "arithmExprCmd")
                 IN  IF p.tok = "dblLeftParen"
                     THEN Call(ps, At(f, 1), NextFr(ps))
                     ELSE Call(p, At(f, 10), Fr("getLit"))
             [] Top.pc = 1 ->
                 LET ps == IF p.tok = "dblSemicolon"
                           THEN [p EXCEPT !.npos = p.npos - 1, !.tok = "semicolon"]
                           ELSE p
                 IN  expr(ps, Top, 2, "dblLeftParen", cl.Lparen, semi(ps, Top, 3))
             [] Top.pc = 2 -> semi(p, [Top EXCEPT !.cl.Init = rv], 3)
             [] Top.pc = 3 -> expr(p, Top, 4, "semicolon", Top.scPos, semi(p, Top, 5))
             [] Top.pc = 4 -> semi(p, [Top EXCEPT !.cl.Cond = rv], 5)
             [] Top.pc = 5 -> expr(p, Top, 6, "semicolon", Top.scPos, end(p, Top))
             [] Top.pc = 6 -> end(p, [Top EXCEPT !.cl.Post = rv])
             [] Top.pc = 7 ->
                 Call(p, [Top EXCEPT !.pc = 8, !.cl.Rparen = rv], GotSameLineFr("semicolon"))
             [] Top.pc = 8 -> Ret(p, cl)
             [] Top.pc = 10 ->
                 Call(IF rv = Nil THEN followErr(p, Top.forPos, sFor, aLiteral) ELSE p,
                      [Top EXCEPT !.pc = 11, !.wi.Name = rv], GotRsrvFr(sIn))
             [] Top.pc = 11 ->
                 IF rv THEN Goto(p, At(Top, 12))
                 ELSE IF ~p.newLine THEN Call(p, At(Top, 15), GotFr("semicolon"))
                 ELSE Ret(p, wi)
             [] Top.pc = 12 ->
                 IF ~p.newLine /\ p.tok # "_EOF" /\ p.tok # "semicolon"
                 THEN Call(p, At(Top, 13), Fr("getWord"))
                 ELSE Call(p, At(Top, 14), GotSameLineFr("semicolon"))
             [] Top.pc = 13 ->
                 IF rv = Nil
                 THEN Goto(curErr(p, "word list can only contain words", <<>>), At(Top, 12))
                 ELSE Goto(p, [Top EXCEPT !.pc = 12, !.wi.List = Append(@, rv)])
             [] Top.pc = 14 -> Ret(p, wi)
             [] OTHER ->
                 Ret(IF rv THEN p ELSE followErr(p, Top.forPos, sForFoo, sInOrNewline), wi)

\* func (p *parser) caseClause() *CaseClause
\*   pc 0: entry;  pc 1 to 5: next, followWord, followRsrv, patLists and
\*   stmtEnd have returned
caseClause ==
    /\ Running("caseClause")
    /\ LET cc == Top.cc
       IN  CASE Top.pc = 0 ->
                 Call(p, [fn |-> "caseClause", pc |-> 1,
                          cc |-> [t |-> "CaseClause", Case |-> p.pos, Esac |-> 0,
                                  Word |-> Nil, List |-> <<>>]],
                      NextFr(p))
             [] Top.pc = 1 -> Call(p, At(Top, 2), FollowWordFr(sCase, cc.Case))
             [] Top.pc = 2 ->
                 Call(p, [Top EXCEPT !.pc = 3, !.cc.Word = rv],
                      FollowRsrvFr(cc.Case, sCaseX, sIn))
             [] Top.pc = 3 -> Call(p, At(Top, 4), Fr("patLists"))
             [] Top.pc = 4 ->
                 Call(p, [Top EXCEPT !.pc = 5, !.cc.List = rv],
                      StmtEndFr(cc.Case, sCase, sEsac))
             [] OTHER -> Ret(p, [cc EXCEPT !.Esac = rv])

\* func (p *parser) patLists() (pls []*PatternList)
\*   pc 0: entry;  pc 1: the head of the outer loop;  pc 2: got(leftParen)
\*   has returned;  pc 3: the head of the pattern loop;  pc 4: getWord has
\*   returned;  pc 5: got(or) has returned;  pc 6: after the pattern loop;
\*   pc 7: next has returned;  pc 8: stmts has returned;  pc 9: next has
\*   returned after the operator
patLists ==
    /\ Running("patLists")
    /\ LET pl == Top.pl
           newPl == [t |-> "PatternList", Op |-> "", OpPos |-> 0, Patterns |-> <<>>,
                     Stmts |-> <<>>]
       IN  CASE Top.pc = 0 ->
                 Goto(p, [fn |-> "patLists", pc |-> 1, pls |-> <<>>, pl |-> newPl,
                          old |-> saveState(p)])
             [] Top.pc = 1 ->
                 IF p.tok # "_EOF" /\ ~(p.tok = "_LitWord" /\ p.val = sEsac)
                 THEN Call(p, [Top EXCEPT !.pc = 2, !.pl = newPl], GotFr("leftParen"))
                 ELSE Ret(p, Top.pls)
             [] Top.pc = 2 -> Goto(p, At(Top, 3))
             [] Top.pc = 3 ->
                 IF p.tok # "_EOF" THEN Call(p, At(Top, 4), Fr("getWord"))
                 ELSE Goto(p, At(Top, 6))
             [] Top.pc = 4 ->
                 LET ps == IF rv = Nil
                           THEN curErr(p, "case patterns must consist of words", <<>>)
                           ELSE p
                     f == IF rv = Nil THEN Top
                          ELSE [Top EXCEPT !.pl.Patterns = Append(@, rv)]
                 IN  IF ps.tok = "rightParen" THEN Goto(ps, At(f, 6))
                     ELSE Call(ps, At(f, 5), GotFr("or"))
             [] Top.pc = 5 ->
                 Goto(IF rv THEN p
                      ELSE curErr(p, "case patterns must be separated with |", <<>>),
                      At(Top, 3))
             [] Top.pc = 6 ->
                 LET ps == preNested(p, "switchCase")
                 IN  Call(ps, [Top EXCEPT !.pc = 7, !.old = saveState(p)], NextFr(ps))
             [] Top.pc = 7 -> Call(p, At(Top, 8), StmtsFr(p, {sEsac}))
             [] Top.pc = 8 ->
                 LET ps == postNested(p, Top.old)
                     pl1 == [pl EXCEPT !.Stmts = rv, !.OpPos = ps.pos]
                 IN  IF ps.tok \notin {"dblSemicolon", "semiFall", "dblSemiFall"}
                     THEN Ret(ps, Append(Top.pls, [pl1 EXCEPT !.Op = "dblSemicolon"]))
                     ELSE Call(ps, [Top EXCEPT !.pc = 9, !.pl = [pl1 EXCEPT !.Op = ps.tok]],
                               NextFr(ps))
             [] OTHER -> Goto(p, [Top EXCEPT !.pc = 1, !.pls = Append(@, pl)])

\* func testUnaryOp(val string) token
testUnaryOp(val) ==
    CASE val = <<"!">> -> "exclMark"
      [] val = <<"-", "e">> \/ val = <<"-", "a">> -> "tsExists"
      [] val = <<"-", "f">> -> "tsRegFile"
      [] val = <<"-", "d">> -> "tsDirect"
      [] val = <<"-", "c">> -> "tsCharSp"
      [] val = <<"-", "b">> -> "tsBlckSp"
      [] val = <<"-", "p">> -> "tsNmPipe"
      [] val = <<"-", "S">> -> "tsSocket"
      [] val = <<"-", "L">> \/ val = <<"-", "h">> -> "tsSmbLink"
      [] val = <<"-", "g">> -> "tsGIDSet"
      [] val = <<"-", "u">> -> "tsUIDSet"
      [] val = <<"-", "r">> -> "tsRead"
      [] val = <<"-", "w">> -> "tsWrite"
      [] val = <<"-", "x">> -> "tsExec"
      [] val = <<"-", "s">> -> "tsNoEmpty"
      [] val = <<"-", "t">> -> "tsFdTerm"
      [] val = <<"-", "z">> -> "tsEmpStr"
      [] val = <<"-", "n">> -> "tsNempStr"
      [] val = <<"-", "o">> -> "tsOptSet"
      [] val = <<"-", "v">> -> "tsVarSet"
      [] val = <<"-", "R">> -> "tsRefVar"
      [] OTHER -> "illegalTok"

\* the unary test operators that take a word
tsUnary ==
    {"tsExists", "tsRegFile", "tsDirect", "tsCharSp", "tsBlckSp", "tsNmPipe", "tsSocket",
     "tsSmbLink", "tsGIDSet", "tsUIDSet", "tsRead", "tsWrite", "tsExec", "tsNoEmpty",
     "tsFdTerm", "tsEmpStr", "tsNempStr", "tsOptSet", "tsVarSet", "tsRefVar"}

\* func testBinaryOp(val string) token
testBinaryOp(val) ==
    CASE val = <<"=">> -> "assgn"
      [] val = <<"=", "=">> -> "equal"
      [] val = <<"!", "=">> -> "nequal"
      [] val = <<"=", "~">> -> "tsReMatch"
      [] val = <<"-", "n", "t">> -> "tsNewer"
      [] val = <<"-", "o", "t">> -> "tsOlder"
      [] val = <<"-", "e", "f">> -> "tsDevIno"
      [] val = <<"-", "e", "q">> -> "tsEql"
      [] val = <<"-", "n", "e">> -> "tsNeq"
      [] val = <<"-", "l", "e">> -> "tsLeq"
      [] val = <<"-", "g", "e">> -> "tsGeq"
      [] val = <<"-", "l", "t">> -> "tsLss"
      [] val = <<"-", "g", "t">> -> "tsGtr"
      [] OTHER -> "illegalTok"

TestExprFr(ftok, fpos, level) ==
    [fn |-> "testExpr", pc |-> 0, ftok |-> ftok, fpos |-> fpos, level |-> level,
     newLevel |-> 0, b |-> Nil, old |-> NoSave]

TestExprBaseFr(ftok, fpos) ==
    [fn |-> "testExprBase", pc |-> 0, ftok |-> ftok, fpos |-> fpos, n |-> Nil]

\* func (p *parser) testClause() *TestClause
\*   pc 0: entry;  pc 1: next has returned;  pc 2: gotRsrv("]]") has
\*   returned;  pc 3: testExpr has returned;  pc 4: gotRsrv("]]") has returned
testClause ==
    /\ Running("testClause")
    /\ LET tc == Top.tc
           noExpr(ps) ==
               posErr(ps, tc.Left, "test clause requires at least one expression", <<>>)
           expr(ps) == Call(ps, At(Top, 3), TestExprFr("illegalTok", tc.Left, 0))
       IN  CASE Top.pc = 0 ->
                 Call(p, [fn |-> "testClause", pc |-> 1,
                          tc |-> [t |-> "TestClause", Left |-> p.pos, Right |-> 0, X |-> Nil]],
                      NextFr(p))
             [] Top.pc = 1 ->
                 IF p.tok = "_EOF" THEN expr(noExpr(p))
                 ELSE Call(p, At(Top, 2), GotRsrvFr(sDblRbrack))
             [] Top.pc = 2 -> expr(IF rv THEN noExpr(p) ELSE p)
             [] Top.pc = 3 ->
                 Call(p, [Top EXCEPT !.pc = 4, !.tc.X = rv, !.tc.Right = p.pos],
                      GotRsrvFr(sDblRbrack))
             [] OTHER ->
                 Ret(IF rv THEN p ELSE matchingErrStr(p, tc.Left, sDblLbrack, sDblRbrack), tc)

\* func (p *parser) testExpr(ftok token, fpos Pos, level int) TestExpr
\*   pc 0: entry;  pc 1: the left operand has returned;  pc 2: next has
\*   returned after the operator;  pc 3: the right operand has returned
testExpr ==
    /\ Running("testExpr")
    /\ LET left == rv
           level == Top.level
           known == p.tok \in {"andAnd", "orOr", "_LitWord", "rdrIn", "rdrOut"}
           newLevel == IF p.tok \in {"_LitWord", "rdrIn", "rdrOut"} THEN 1 ELSE 0
           ps1 == IF known THEN p
                  ELSE curErr(p, "not a valid test operator: %v", <<TokStr(p.tok)>>)
           op == testBinaryOp(ps1.val)
           ps2 == IF ps1.tok # "_LitWord" THEN ps1
                  ELSE IF op = "illegalTok"
                  THEN curErr([ps1 EXCEPT !.tok = op], "not a valid test operator: %s",
                              <<ps1.val>>)
                  ELSE [ps1 EXCEPT !.tok = op]
           b == [t |-> "BinaryTest", OpPos |-> ps2.pos, Op |-> ps2.tok, X |-> left, Y |-> Nil]
           ps3 == IF b.Op = "tsReMatch" THEN preNested(ps2, "testRegexp") ELSE ps2
       IN  CASE Top.pc = 0 ->
                 IF level > 1
                 THEN Call(p, At(Top, 1), TestExprBaseFr(Top.ftok, Top.fpos))
                 ELSE Call(p, At(Top, 1), TestExprFr(Top.ftok, Top.fpos, level + 1))
             [] Top.pc = 1 ->
                 IF left = Nil THEN Ret(p, left)
                 ELSE IF p.tok = "_LitWord" /\ p.val = sDblRbrack THEN Ret(p, left)
                 ELSE IF p.tok \in {"_EOF", "rightParen"} THEN Ret(p, left)
                 ELSE IF newLevel < level THEN Ret(ps1, left)
                 ELSE Call(ps3, [Top EXCEPT !.pc = 2, !.newLevel = newLevel, !.b = b,
                                            !.old = saveState(ps2)],
                           NextFr(ps3))
             [] Top.pc = 2 ->
                 Call(IF Top.b.Op = "tsReMatch" THEN postNested(p, Top.old) ELSE p,
                      At(Top, 3), TestExprFr(Top.b.Op, Top.b.OpPos, Top.newLevel))
             [] OTHER ->
                 Ret(IF rv = Nil THEN followErrExp(p, Top.b.OpPos, TokStr(Top.b.Op))
                     ELSE p,
                     [Top.b EXCEPT !.Y = rv])

\* func (p *parser) testExprBase(ftok token, fpos Pos) TestExpr
\*   pc 0: entry;  pc 1, 2: next and testExpr have returned after !;
\*   pc 3, 4: next and followWordTok have returned after a unary operator;
\*   pc 5, 6, 7: next, testExpr and matched have returned after (;
\*   pc 8: followWordTok has returned
testExprBase ==
    /\ Running("testExprBase")
    /\ LET op == testUnaryOp(p.val)
           tok == IF p.tok = "_LitWord" /\ op # "illegalTok" THEN op ELSE p.tok
           ps == [p EXCEPT !.tok = tok]
           n == Top.n
       IN  CASE Top.pc = 0 ->
                 IF p.tok = "_EOF" THEN Ret(p, Nil)
                 ELSE IF tok = "exclMark"
                 THEN Call(ps, [Top EXCEPT !.pc = 1,
                                           !.n = [t |-> "UnaryTest", OpPos |-> p.pos,
                                                  Op |-> "exclMark", X |-> Nil]],
                           NextFr(ps))
                 ELSE IF tok \in tsUnary
                 THEN Call(ps, [Top EXCEPT !.pc = 3,
                                           !.n = [t |-> "UnaryTest", OpPos |-> p.pos,
                                                  Op |-> tok, X |-> Nil]],
                           NextFr(ps))
                 ELSE IF tok = "leftParen"
                 THEN Call(ps, [Top EXCEPT !.pc = 5,
                                           !.n = [t |-> "ParenTest", Lparen |-> p.pos,
                                                  Rparen |-> 0, X |-> Nil]],
                           NextFr(ps))
                 ELSE IF tok = "rightParen" THEN Ret(ps, Nil)
                 ELSE Call(ps, At(Top, 8), FollowWordTokFr(Top.ftok, Top.fpos))
             [] Top.pc = 1 -> Call(p, At(Top, 2), TestExprFr(n.Op, n.OpPos, 0))
             [] Top.pc = 2 -> Ret(p, [n EXCEPT !.X = rv])
             [] Top.pc = 3 -> Call(p, At(Top, 4), FollowWordTokFr(Top.ftok, Top.fpos))
             [] Top.pc = 4 -> Ret(p, [n EXCEPT !.X = rv])
             [] Top.pc = 5 -> Call(p, At(Top, 6), TestExprFr("leftParen", n.Lparen, 0))
             [] Top.pc = 6 ->
                 Call(IF rv = Nil
                      THEN posErr(p, n.Lparen, "parentheses must enclose an expression", <<>>)
                      ELSE p,
                      [Top EXCEPT !.pc = 7, !.n.X = rv],
                      MatchedFr(n.Lparen, "leftParen", "rightParen"))
             [] Top.pc = 7 -> Ret(p, [n EXCEPT !.Rparen = rv])
             [] OTHER -> Ret(p, rv)

\* End() of a word
wordEnd(w) == IF w.Parts = <<>> THEN 0 ELSE partEnd(w.Parts[Len(w.Parts)])

\* func (p *parser) call(w *Word) *CallExpr
call(w) == [t |-> "CallExpr", Args |-> <<w>>]

\* func (p *parser) declClause() *DeclClause
\*   pc 0: entry;  pc 1: the head of the loop over the options;  pc 2:
\*   getWord has returned an option;  pc 3: the head of the loop over the
\*   assignments;  pc 4: getAssign has returned;  pc 5: getWord has returned
declClause ==
    /\ Running("declClause")
    /\ LET ds == Top.ds
       IN  CASE Top.pc = 0 ->
                 Call(p, [fn |-> "declClause", pc |-> 1, name |-> p.val,
                          ds |-> [t |-> "DeclClause", Position |-> p.pos,
                                  Variant |-> IF p.val \in {sDeclare, sTypeset} THEN <<>>
                                              ELSE p.val,
                                  Opts |-> <<>>, Assigns |-> <<>>]],
                      NextFr(p))
             [] Top.pc = 1 ->
                 IF p.tok = "_LitWord" /\ byteAt(p.val, 0) = "-"
                 THEN Call(p, At(Top, 2), Fr("getWord"))
                 ELSE Goto(p, At(Top, 3))
             [] Top.pc = 2 -> Goto(p, [Top EXCEPT !.pc = 1, !.ds.Opts = Append(@, rv)])
             [] Top.pc = 3 ->
                 IF ~p.newLine /\ ~stopToken(p.tok) /\ ~peekRedir(p)
                 THEN IF p.tok \in {"_Lit", "_LitWord"} /\ validIdent(p)
                      THEN Call(p, At(Top, 4), Fr("getAssign"))
                      ELSE Call(p, At(Top, 5), Fr("getWord"))
                 ELSE Ret(p, ds)
             [] Top.pc = 4 -> Goto(p, [Top EXCEPT !.pc = 3, !.ds.Assigns = Append(@, rv)])
             [] OTHER ->
                 IF rv = Nil
                 THEN Goto(followErr(p, p.pos, Top.name, sWords), At(Top, 3))
                 ELSE Goto(p, [Top EXCEPT !.pc = 3,
                                          !.ds.Assigns =
                                              Append(@, [t |-> "Assign", Name |-> Nil,
                                                         Append |-> FALSE, Value |-> rv])])

\* func (p *parser) evalClause() *EvalClause
\*   pc 0: entry;  pc 1, 2: next and getStmt have returned
evalClause ==
    /\ Running("evalClause")
    /\ CASE Top.pc = 0 -> Call(p, [fn |-> "evalClause", pc |-> 1, Eval |-> p.pos], NextFr(p))
         [] Top.pc = 1 -> Call(p, At(Top, 2), GetStmtFr(p, FALSE))
         [] OTHER -> Ret(p, [t |-> "EvalClause", Eval |-> Top.Eval, Stmt |-> rv.s])

\* func (p *parser) coprocClause() *CoprocClause
\*   pc 0: entry;  pc 1: next has returned;  pc 2: getStmt has returned for
\*   a clause with no name;  pc 3: getLit has returned;  pc 4: getStmt has
\*   returned
coprocClause ==
    /\ Running("coprocClause")
    /\ LET cc == Top.cc
           noCmd(ps) == posErr(ps, cc.Coproc, "coproc clause requires a command", <<>>)
           w == word(singleWps(cc.Name))
       IN  CASE Top.pc = 0 ->
                 Call(p, [fn |-> "coprocClause", pc |-> 1,
                          cc |-> [t |-> "CoprocClause", Coproc |-> p.pos, Name |-> Nil,
                                  Stmt |-> Nil]],
                      NextFr(p))
             [] Top.pc = 1 ->
                 IF isBashCompoundCommand(p.tok, p.val)
                 THEN Call(p, At(Top, 2), GetStmtFr(p, FALSE))
                 ELSE Call(IF p.newLine THEN noCmd(p) ELSE p, At(Top, 3), Fr("getLit"))
             [] Top.pc = 2 -> Ret(p, [cc EXCEPT !.Stmt = rv.s])
             [] Top.pc = 3 -> Call(p, [Top EXCEPT !.pc = 4, !.cc.Name = rv], GetStmtFr(p, FALSE))
             [] OTHER ->
                 IF rv.s = Nil
                 THEN IF cc.Name = Nil THEN Ret(noCmd(p), Nil)
                      ELSE \* name was in fact the stmt
                           Ret(p, [cc EXCEPT !.Name = Nil,
                                             !.Stmt = [stmt(cc.Name.ValuePos)
                                                       EXCEPT !.Cmd = call(w)]])
                 ELSE IF cc.Name # Nil /\ rv.s.Cmd.t = "CallExpr"
                 THEN \* name was in fact the start of a call
                      Ret(p, [cc EXCEPT !.Name = Nil,
                                        !.Stmt = [rv.s EXCEPT !.Cmd.Args = <<w>> \o @]])
                 ELSE Ret(p, [cc EXCEPT !.Stmt = rv.s])

\* func (p *parser) letClause() *LetClause
\*   pc 0: entry;  pc 1: the head of the loop;  pc 2: arithmExpr has
\*   returned;  pc 3: next has returned after the loop
letClause ==
    /\ Running("letClause")
    /\ LET lc == Top.lc
           end(ps, f) ==
               LET ps1 == IF Len(f.lc.Exprs) = 0
                          THEN posErr(ps, f.lc.Let,
                                      "let clause requires at least one expression", <<>>)
                          ELSE ps
                   ps2 == postNested(ps1, f.old)
               IN  IF ps2.tok = "illegalTok" THEN Call(ps2, At(f, 3), NextFr(ps2))
                   ELSE Ret(ps2, f.lc)
       IN  CASE Top.pc = 0 ->
                 LET ps == preNested(p, "arithmExprLet")
                 IN  Call(ps, [fn |-> "letClause", pc |-> 1, old |-> saveState(p),
                               lc |-> [t |-> "LetClause", Let |-> p.pos, Exprs |-> <<>>]],
                          NextFr(ps))
             [] Top.pc = 1 ->
                 IF ~p.newLine /\ ~stopToken(p.tok) /\ ~peekRedir(p)
                 THEN Call(p, At(Top, 2), ArithmExprFr("illegalTok", lc.Let, 0, TRUE, FALSE))
                 ELSE end(p, Top)
             [] Top.pc = 2 ->
                 IF rv = Nil THEN end(p, Top)
                 ELSE Goto(p, [Top EXCEPT !.pc = 1, !.lc.Exprs = Append(@, rv)])
             [] OTHER -> Ret(p, lc)

\* func (p *parser) bashFuncDecl() *FuncDecl
\*   pc 0: entry;  pc 1: next has returned;  pc 2: followWord has returned;
\*   pc 3: next has returned after the name;  pc 4: gotSameLine has
\*   returned;  pc 5: follow has returned;  pc 6: funcDecl has returned
bashFuncDecl ==
    /\ Running("bashFuncDecl")
    /\ LET fpos == Top.fpos
           name(ps) == Call(ps, [Top EXCEPT !.pc = 3, !.name = lit(ps, ps.pos, ps.val)],
                            NextFr(ps))
           decl == [fn |-> "funcDecl", pc |-> 0, name |-> Top.name, pos |-> fpos]
       IN  CASE Top.pc = 0 ->
                 Call(p, [fn |-> "bashFuncDecl", pc |-> 1, fpos |-> p.pos, name |-> Nil],
                      NextFr(p))
             [] Top.pc = 1 ->
                 IF p.tok # "_LitWord" THEN Call(p, At(Top, 2), FollowWordFr(sFunction, fpos))
                 ELSE name(p)
             [] Top.pc = 2 ->
                 name(IF p.err = NoErr
                      THEN posErr(p, wordPos(rv), "invalid func name: %q",
                                  <<Slice(p.src, wordPos(rv) - 1, wordEnd(rv) - 1)>>)
                      ELSE p)
             [] Top.pc = 3 -> Call(p, At(Top, 4), GotSameLineFr("leftParen"))
             [] Top.pc = 4 ->
                 IF rv THEN Call(p, At(Top, 5),
                                 FollowFr(Top.name.ValuePos, sFooParen, "rightParen"))
                 ELSE Call(p, At(Top, 6), decl)
             [] Top.pc = 5 -> Call(p, At(Top, 6), decl)
             [] OTHER -> Ret(p, rv)

---------------------------------------------------------------------------
(* Parse, and the program as a state machine.                               *)

\* func Parse(src []byte, name string, mode ParseMode) (*File, error)
\*   with no call running: the entry, up to the call of next; the parser is
\*   what parserFree.Get() returns, which is the parser the last call put
\*   back, or a new one when the pool has dropped it
\*   pc 1: next has returned;  pc 2: stmts has returned;  pc 3: doHeredocs
\*   has returned
Parse ==
    LET finish(ps) ==
            /\ p' = ps
            /\ calls' = <<>>
            /\ rets' = Append(rets, [src |-> ps.src, mode |-> ps.mode, f |-> ps.f,
                                     err |-> ps.err])
            /\ UNCHANGED <<rv, todo>>
    IN  IF calls = <<>>
        THEN /\ todo # <<>>
             /\ \E fresh \in BOOLEAN :
                    LET c == Head(todo)
                        ps0 == dropGarbage(reset(IF fresh THEN NewParser ELSE p))
                        ps == [ps0 EXCEPT !.f = NewFile(c.name), !.src = c.src,
                                          !.mode = c.mode]
                    IN  /\ p' = ps
                        /\ calls' = <<Entered([fn |-> "Parse", pc |-> 1], ps),
                                      Entered(NextFr(ps), ps)>>
                        /\ todo' = Tail(todo)
                        /\ UNCHANGED <<rv, rets>>
        ELSE /\ Running("Parse")
             /\ CASE Top.pc = 1 -> Call(p, At(Top, 2), StmtsFr(p, {}))
                  [] Top.pc = 2 ->
                       LET ps == [p EXCEPT !.f.Stmts = rv]
                       IN  IF ps.err = NoErr THEN Call(ps, At(Top, 3), Fr("doHeredocs"))
                           ELSE finish(ps)
                  [] OTHER -> finish(p)

\* the modes of a call
bashMode == [ParseComments |-> FALSE, PosixConformant |-> FALSE]
posixMode == [ParseComments |-> FALSE, PosixConformant |-> TRUE]
commentsMode == [ParseComments |-> TRUE, PosixConformant |-> FALSE]

\* one call of Parse
In(src, mode) == [src |-> src, name |-> <<>>, mode |-> mode]

---------------------------------------------------------------------------
(* The inputs.  Every input is parsed twice, under PosixConformant and     *)
(* then in the extended dialect, by the parser the pool hands out.         *)

\* every text of at most MaxLen bytes of Sigma
Sigma == {"a", " ", ";", "&", "|", "(", ")", "$", "\n", "<"}
MaxLen == 3
Strings == UNION {[1..n -> Sigma] : n \in 0..MaxLen}

\* programs that between them reach every production of the grammar
\* if a; then b; elif c; then d; else e; fi
pIf ==
    <<"i", "f", " ", "a", ";", " ", "t", "h", "e", "n", " ", "b", ";", " ", "e", "l", "i",
      "f", " ", "c", ";", " ", "t", "h", "e", "n", " ", "d", ";", " ", "e", "l", "s", "e",
      " ", "e", ";", " ", "f", "i">>

\* for i in 1 2; do a; done
pForIn ==
    <<"f", "o", "r", " ", "i", " ", "i", "n", " ", "1", " ", "2", ";", " ", "d", "o", " ",
      "a", ";", " ", "d", "o", "n", "e">>

\* for ((i=0; i<3; i++)); do a; done
pForC ==
    <<"f", "o", "r", " ", "(", "(", "i", "=", "0", ";", " ", "i", "<", "3", ";", " ", "i",
      "+", "+", ")", ")", ";", " ", "d", "o", " ", "a", ";", " ", "d", "o", "n", "e">>

\* case x in a|b) c;; (d) e;& esac
pCase ==
    <<"c", "a", "s", "e", " ", "x", " ", "i", "n", " ", "a", "|", "b", ")", " ", "c", ";",
      ";", " ", "(", "d", ")", " ", "e", ";", "&", " ", "e", "s", "a", "c">>

\* [[ -e a && ! (b -nt c) || d =~ e ]]
pTest ==
    <<"[", "[", " ", "-", "e", " ", "a", " ", "&", "&", " ", "!", " ", "(", "b", " ",
      "-", "n", "t", " ", "c", ")", " ", "|", "|", " ", "d", " ", "=", "~", " ", "e",
      " ", "]", "]">>

\* foo() { bar; }
pFunc ==
    <<"f", "o", "o", "(", ")", " ", "{", " ", "b", "a", "r", ";", " ", "}">>

\* function f() { a; }
pBashFunc ==
    <<"f", "u", "n", "c", "t", "i", "o", "n", " ", "f", "(", ")", " ", "{", " ", "a", ";",
      " ", "}">>

\* a=(b c) d+=e f
pArray ==
    <<"a", "=", "(", "b", " ", "c", ")", " ", "d", "+", "=", "e", " ", "f">>

\* let i++ j=2
pLet ==
    <<"l", "e", "t", " ", "i", "+", "+", " ", "j", "=", "2">>

\* declare -x a=b c
pDeclare ==
    <<"d", "e", "c", "l", "a", "r", "e", " ", "-", "x", " ", "a", "=", "b", " ", "c">>

\* coproc a b
pCoproc ==
    <<"c", "o", "p", "r", "o", "c", " ", "a", " ", "b">>

\* echo ${a:-b} ${#a} $b
pParam ==
    <<"e", "c", "h", "o", " ", "$", "{", "a", ":", "-", "b", "}", " ", "$", "{", "#", "a",
      "}", " ", "$", "b">>

\* echo "$(b `c`)" $((1+2*3))
pSubst ==
    <<"e", "c", "h", "o", " ", "\"", "$", "(", "b", " ", BQ, "c", BQ, ")", "\"", " ", "$",
      "(", "(", "1", "+", "2", "*", "3", ")", ")">>

\* while a; do b; done; until c; do d; done
pLoops ==
    <<"w", "h", "i", "l", "e", " ", "a", ";", " ", "d", "o", " ", "b", ";", " ", "d", "o",
      "n", "e", ";", " ", "u", "n", "t", "i", "l", " ", "c", ";", " ", "d", "o", " ", "d",
      ";", " ", "d", "o", "n", "e">>

\* ((a+1))
pArithmCmd ==
    <<"(", "(", "a", "+", "1", ")", ")">>

\* echo ?(a) <(b) $[1]
pGlob ==
    <<"e", "c", "h", "o", " ", "?", "(", "a", ")", " ", "<", "(", "b", ")", " ", "$", "[",
      "1", "]">>

\* a 'b' $'c' $"d"
pQuotes ==
    <<"a", " ", "'", "b", "'", " ", "$", "'", "c", "'", " ", "$", "\"", "d", "\"">>

\* eval a
pEval ==
    <<"e", "v", "a", "l", " ", "a">>

\* { a; } >f 2>&1
pRedirs ==
    <<"{", " ", "a", ";", " ", "}", " ", ">", "f", " ", "2", ">", "&", "1">>

\* ! a | b && c || d &
pPipe ==
    <<"!", " ", "a", " ", "|", " ", "b", " ", "&", "&", " ", "c", " ", "|", "|", " ", "d",
      " ", "&">>

\* cat <<-E\n\tfoo\n\tE\n
pHdocDash ==
    <<"c", "a", "t", " ", "<", "<", "-", "E", "\n", "\t", "f", "o", "o", "\n", "\t", "E",
      "\n">>

\* cat <<'E'\n$a\nE\n
pHdocQuoted ==
    <<"c", "a", "t", " ", "<", "<", "'", "E", "'", "\n", "$", "a", "\n", "E", "\n">>

\* a # b\nc
pComment ==
    <<"a", " ", "#", " ", "b", "\n", "c">>

Programs ==
    {pIf, pForIn, pForC, pCase, pTest, pFunc, pBashFunc, pArray, pLet, pDeclare, pCoproc,
     pParam, pSubst, pLoops, pArithmCmd, pGlob, pQuotes, pEval, pRedirs, pPipe,
     pHdocDash, pHdocQuoted, pComment}

\* two statements and what stands between them: the first is a command, a
\* pipeline or an and-or chain of at most MaxChain commands, or a subshell
\* or block
MaxChain == 2
ChainOps == {<<" ", "|", " ">>, <<" ", "&", "&", " ">>, <<" ", "|", "|", " ">>}
RECURSIVE Chains(_)
Chains(n) ==
    IF n = 1 THEN {<<"a">>}
    ELSE {c \o op \o <<"a">> : c \in Chains(n - 1), op \in ChainOps}
FirstStmts ==
    UNION {Chains(n) : n \in 1..MaxChain}
        \cup {<<"(", "a", ")">>, <<"{", " ", "a", ";", " ", "}">>}
\* a separator and the blank after it, or no separator at all
Separators == {<<";", " ">>, <<" ", "&", " ">>, <<"\n">>}
NoSeparator == <<" ">>
TwoStmts(first, sep) == first \o sep \o <<"b">>
SepProgs == {TwoStmts(first, sep) : first \in FirstStmts, sep \in Separators \cup {NoSeparator}}

\* arithmetic: MaxOperands operands a, b, c, .. with one binary operator
\* between them, and the ternary
MaxOperands == 3
AssignOps ==
    {<<"=">>, <<"+", "=">>, <<"-", "=">>, <<"*", "=">>, <<"/", "=">>, <<"%", "=">>,
     <<"&", "=">>, <<"|", "=">>, <<"^", "=">>, <<"<", "<", "=">>, <<">", ">", "=">>}
LeftOps ==
    {<<",">>, <<"&", "&">>, <<"|", "|">>, <<"&">>, <<"|">>, <<"^">>, <<"=", "=">>,
     <<"!", "=">>, <<"<">>, <<">">>, <<"<", "=">>, <<">", "=">>, <<"<", "<">>, <<">", ">">>,
     <<"+">>, <<"-">>, <<"*">>, <<"/">>, <<"%">>, <<"*", "*">>}
Operands == <<"a", "b", "c", "d", "e">>
RECURSIVE Operation(_, _)
Operation(op, n) ==
    IF n = 1 THEN <<Operands[1]>>
    ELSE Operation(op, n - 1) \o <<" ">> \o op \o <<" ">> \o <<Operands[n]>>
ArithmExp(x) == <<"$", "(", "(">> \o x \o <<")", ")">>
Ternary == <<"a", " ", "?", " ", "b", " ", ":", " ", "c", " ", "?", " ", "d", " ", ":", " ", "e">>
ArithmProgs ==
    {ArithmExp(Operation(op, MaxOperands)) : op \in AssignOps \cup LeftOps}
        \cup {ArithmExp(Ternary)}

\* heredocs: a line of n redirects, n from 1 to MaxHdocs, then the n bodies,
\* each one line and the line of its stop word; the first body is a line of
\* text, or a command substitution with redirects of its own
MaxHdocs == 2
Stops == <<"X", "Y", "Z", "W">>
InnerStops == <<"A", "B", "C", "D">>
Texts == <<"x", "y", "z", "w">>
RECURSIVE Redirs(_, _)
Redirs(n, stops) ==
    IF n = 0 THEN <<>>
    ELSE Redirs(n - 1, stops) \o (IF n > 1 THEN <<" ">> ELSE <<>>) \o <<"<", "<", stops[n]>>
RECURSIVE Bodies(_, _, _)
Bodies(n, first, stops) ==
    IF n = 0 THEN <<>>
    ELSE Bodies(n - 1, first, stops) \o (IF n = 1 THEN first ELSE <<Texts[n]>>)
             \o <<"\n", stops[n], "\n">>
\* a command substitution with redirects, closed on their line or after
\* their bodies
Substs ==
    {<<"$", "(">> \o Redirs(m, InnerStops) \o <<")">> : m \in 1..MaxHdocs}
        \cup {<<"$", "(">> \o Redirs(m, InnerStops) \o <<"\n">>
                  \o Bodies(m, <<Texts[1]>>, InnerStops) \o <<")">> : m \in 1..MaxHdocs}
FirstBodies == {<<Texts[1]>>} \cup Substs
\* with the newline after the last stop word, or without it
HdocProg(n, first, endNl) ==
    LET all == Redirs(n, Stops) \o <<"\n">> \o Bodies(n, first, Stops)
    IN  IF endNl THEN all ELSE SubSeq(all, 1, Len(all) - 1)
\* a first body that opens an expansion and does not close it
UnclosedBodies == {<<"$", "(">>, <<"$", "{">>, <<BQ>>}
HdocProgs ==
    {HdocProg(n, first, endNl) :
         n \in 1..MaxHdocs, first \in FirstBodies \cup UnclosedBodies, endNl \in BOOLEAN}

\* a heredoc redirect inside a nested context that closes on the line of
\* the redirect, and the body after that line
Nestings ==
    {[open |-> <<"c", " ", "$", "(">>, close |-> <<")">>],
     [open |-> <<"c", " ", BQ>>, close |-> <<" ", BQ>>],
     [open |-> <<"(">>, close |-> <<")">>],
     [open |-> <<"c", " ", "<", "(">>, close |-> <<")">>],
     [open |-> <<"c", "a", "s", "e", " ", "x", " ", "i", "n", " ", "y", ")", " ">>,
      close |-> <<";", ";", " ", "e", "s", "a", "c">>]}
NestedHdoc(c) ==
    c.open \o <<"a", " ", "<", "<", "E">> \o c.close \o <<"\n", "b", "\n", "E", "\n">>
NestedHdocs == {NestedHdoc(c) : c \in Nestings}

Sources == Strings \cup Programs \cup SepProgs \cup ArithmProgs \cup HdocProgs \cup NestedHdocs

\* arithmetic: the binary operators level by level, as arithmOpLevel has
\* them, and for two levels one operator of each around three operands, the
\* operator of the lower level first and then second
LevelOps ==
    <<<< <<",">> >>,
      << <<"+", "=">>, <<"-", "=">>, <<"*", "=">>, <<"/", "=">>, <<"%", "=">>, <<"&", "=">>,
         <<"|", "=">>, <<"^", "=">>, <<"<", "<", "=">>, <<">", ">", "=">> >>,
      << <<"=">> >>,
      << <<"?">>, <<":">> >>,
      << <<"&", "&">>, <<"|", "|">> >>,
      << <<"&">>, <<"|">>, <<"^">> >>,
      << <<"=", "=">>, <<"!", "=">> >>,
      << <<"<">>, <<">">>, <<"<", "=">>, <<">", "=">> >>,
      << <<"<", "<">>, <<">", ">">> >>,
      << <<"+">>, <<"-">> >>,
      << <<"*">>, <<"/">>, <<"%">> >>,
      << <<"*", "*">> >>>>
Levels == 0..(Len(LevelOps) - 1)
\* the operator of level l that stands with an operator of level k
OpOf(l, k) == LevelOps[l + 1][(k % Len(LevelOps[l + 1])) + 1]
TwoOps(op1, op2) ==
    <<Operands[1], " ">> \o op1 \o <<" ", Operands[2], " ">> \o op2 \o <<" ", Operands[3]>>
LowHigh(lo, hi) == ArithmExp(TwoOps(OpOf(lo, hi), OpOf(hi, lo)))
HighLow(lo, hi) == ArithmExp(TwoOps(OpOf(hi, lo), OpOf(lo, hi)))
LevelPairs == {l \in Levels \X Levels : l[1] < l[2]}
PrecProgs == UNION {{LowHigh(l[1], l[2]), HighLow(l[1], l[2])} : l \in LevelPairs}

\* the constructs that PosixConformant rejects: the text, the column of
\* the token that introduces the construct, and which feature it is
sArrays == "arrays are a bash feature"
sSlicing == "slicing is a bash feature"
sReplace == "search and replace is a bash feature"
sCaseExp == "case expansions are a bash feature"
Feature(src, col, text) == [src |-> src, col |-> col, text |-> text]
ParamFeatures ==
    {Feature(<<"$", "{", "a", "[", "b", "]", "}">>, 4, sArrays),
     Feature(<<"$", "{", "a", ":", "b", "}">>, 4, sSlicing),
     Feature(<<"$", "{", "a", ":", "b", ":", "c", "}">>, 4, sSlicing),
     Feature(<<"$", "{", "a", "/", "b", "/", "c", "}">>, 4, sReplace),
     Feature(<<"$", "{", "a", "/", "/", "b", "/", "c", "}">>, 4, sReplace),
     Feature(<<"$", "{", "a", ",", "b", "}">>, 4, sCaseExp),
     Feature(<<"$", "{", "a", ",", ",", "b", "}">>, 4, sCaseExp),
     Feature(<<"$", "{", "a", "^", "b", "}">>, 4, sCaseExp),
     Feature(<<"$", "{", "a", "^", "^", "b", "}">>, 4, sCaseExp)}
sEcho == <<"e", "c", "h", "o", " ">>
Features ==
    ParamFeatures
        \cup {Feature(sEcho \o f.src, Len(sEcho) + f.col, f.text) : f \in ParamFeatures}
        \cup {Feature(<<"a", "=", "(", "b", ")">>, 3, sArrays),
              Feature(<<"a", "+", "=", "(", "b", ")">>, 4, sArrays)}
FeatureProgs == {f.src : f \in Features}

\* a command that starts with ((: every text of at most MaxParens bytes of
\* ParenSigma after it, and two with a separator inside
ParenSigma == {"a", "(", ")"}
MaxParens == 4
ParenTails ==
    UNION {[1..n -> ParenSigma] : n \in 0..MaxParens}
        \cup {<<"a", ")", ";", " ", "b", ")">>, <<"a", ")", ";", "(", "b", ")", ")">>}
DblParenProgs == {<<"(", "(">> \o t : t \in ParenTails}

\* a text parsed without a file name and then with one
sFileName == <<"f", ".", "s", "h">>
NamedSrcs ==
    {<<"'">>, <<"a", "\n", ";">>, <<"a", " ", "&", "&">>, <<"a", ";", " ", "b">>,
     sEcho \o <<"$", "{", "f", "o", "o", ":", "1", "}">>}
NamedRuns ==
    {<<In(src, posixMode), [In(src, posixMode) EXCEPT !.name = sFileName]>> : src \in NamedSrcs}

\* the places where a statement must start: the start of the input, after a
\* separator, after a newline, and the start of a block or subshell
StartCtxs ==
    {<<>>, <<"a", ";", " ">>, <<"a", " ", "&", " ">>, <<"a", "\n">>, <<"\n">>,
     <<"a", ";", "\n">>, <<"{", " ">>, <<"(", " ">>, <<"{", " ", "(">>, <<"$", "(">>}
StartSyms == {<<";">>, <<"&">>, <<"|">>, <<"|", "|">>, <<"&", "&">>}
StartTails == {<<>>, <<" ", "b">>}
StartProgs == {c \o y \o t : c \in StartCtxs, y \in StartSyms, t \in StartTails}

\* the constructs with a left and a right delimiter, each with the name of
\* its left in the error, the dialect that has it and bodies that are complete
Delim(open, left, right, inWord, ext, bodies) ==
    [open |-> open, left |-> left, right |-> right, inWord |-> inWord, ext |-> ext,
     bodies |-> bodies]
sA == <<"a">>
ExtGlobBodies == {<<>>, sA, <<"a", "(", "b", ")">>}
Delims ==
    {Delim(<<"(">>, <<"(">>, <<")">>, FALSE, FALSE, {<<>>, sA, <<" ", "a", ";">>}),
     Delim(<<"{">>, <<"{">>, <<"}">>, FALSE, FALSE, {<<>>, <<" ", "a">>, <<" ", "a", ";">>}),
     Delim(<<"[", "[">>, <<"[", "[">>, <<"]", "]">>, FALSE, TRUE,
           {<<" ", "a">>, <<" ", "a", " ", "&", "&", " ", "b">>}),
     Delim(<<"(", "(">>, <<"(", "(">>, <<")", ")">>, FALSE, TRUE,
           {<<>>, sA, <<"a", " ", "+", " ", "b">>}),
     Delim(<<"$", "(">>, <<"(">>, <<")">>, TRUE, FALSE, {<<>>, sA, <<"a", ";", " ", "b">>}),
     Delim(<<"$", "{">>, <<"$", "{">>, <<"}">>, TRUE, FALSE,
           {sA, <<"a", "-", "b">>, <<"a", "-">>}),
     Delim(<<"$", "(", "(">>, <<"$", "(", "(">>, <<")", ")">>, TRUE, FALSE,
           {<<>>, sA, <<"a", "+", "b">>}),
     Delim(<<"$", "[">>, <<"$", "[">>, <<"]">>, TRUE, TRUE, {<<>>, sA}),
     Delim(<<"?", "(">>, <<"?", "(">>, <<")">>, TRUE, TRUE, ExtGlobBodies),
     Delim(<<"*", "(">>, <<"*", "(">>, <<")">>, TRUE, TRUE, ExtGlobBodies),
     Delim(<<"+", "(">>, <<"+", "(">>, <<")">>, TRUE, TRUE, ExtGlobBodies),
     Delim(<<"@", "(">>, <<"@", "(">>, <<")">>, TRUE, TRUE, ExtGlobBodies),
     Delim(<<"!", "(">>, <<"!", "(">>, <<")">>, TRUE, TRUE, ExtGlobBodies)}
\* what is before the construct: nothing, a statement, a line, an open block;
\* for a part of a word also the word before it
CmdPres == {<<>>, <<"a", ";", " ">>, <<"a", "\n">>, <<"{", " ">>}
WordPres == {<<>>, sEcho, <<"a", "\n">> \o sEcho}
\* an input that ends inside a construct: what is before it, the construct
\* and the body
Unclosed(pre, d, body) == [src |-> pre \o d.open \o body, pre |-> pre, d |-> d]
UnclosedCases ==
    UNION {{Unclosed(pre, d, body) : pre \in (IF d.inWord THEN WordPres ELSE CmdPres),
                                     body \in d.bodies} : d \in Delims}
UnclosedRuns ==
    {IF c.d.ext THEN <<In(c.src, bashMode)>> ELSE <<In(c.src, posixMode), In(c.src, bashMode)>> :
         c \in UnclosedCases}

\* the clauses that end with a word, each with bodies that are complete and
\* no closing word
Clause(kw, end, heads) == [kw |-> kw, end |-> end, heads |-> heads]
Clauses ==
    {Clause(sIf, sFi,
            {<<"i", "f", " ", "a", ";", " ", "t", "h", "e", "n", " ", "b", ";">>,
             <<"i", "f", " ", "a", ";", " ", "t", "h", "e", "n", " ", "b">>,
             <<"i", "f", " ", "a", ";", " ", "t", "h", "e", "n", " ", "b", ";", " ", "e", "l", "s", "e", " ", "c", ";">>,
             <<"i", "f", " ", "a", ";", " ", "t", "h", "e", "n", " ", "b", ";", " ", "e", "l", "i", "f", " ", "c", ";", " ", "t", "h", "e", "n", " ", "d", "\n">>}),
     Clause(sWhile, sDone,
            {<<"w", "h", "i", "l", "e", " ", "a", ";", " ", "d", "o", " ", "b", ";">>,
             <<"w", "h", "i", "l", "e", " ", "a", ";", " ", "d", "o", " ", "b">>}),
     Clause(sUntil, sDone,
            {<<"u", "n", "t", "i", "l", " ", "a", ";", " ", "d", "o", " ", "b", ";">>}),
     Clause(sFor, sDone,
            {<<"f", "o", "r", " ", "i", " ", "i", "n", " ", "1", " ", "2", ";", " ", "d", "o", " ", "a", ";">>,
             <<"f", "o", "r", " ", "i", "\n", "d", "o", " ", "a", "\n">>}),
     Clause(sCase, sEsac,
            {<<"c", "a", "s", "e", " ", "a", " ", "i", "n", " ", "b", ")", " ", "c", ";">>,
             <<"c", "a", "s", "e", " ", "a", " ", "i", "n", " ", "b", ")", " ", "c", ";", ";">>})}
\* what is around the clause: nothing, a statement or a line before it, a
\* subshell, a command substitution, an open block, the body of a clause
Around(pre, post) == [pre |-> pre, post |-> post]
Arounds ==
    {Around(<<>>, <<>>),
     Around(<<"a", ";", " ">>, <<>>),
     Around(<<"a", "\n">>, <<>>),
     Around(<<"(", " ">>, <<" ", ")">>),
     Around(<<"e", "c", "h", "o", " ", "$", "(">>, <<")">>),
     Around(<<"e", "c", "h", "o", " ", BQ>>, <<BQ>>),
     Around(<<"{", " ">>, <<>>),
     Around(<<"w", "h", "i", "l", "e", " ", "a", ";", " ", "d", "o", " ">>, <<>>),
     Around(<<"i", "f", " ", "a", ";", " ", "t", "h", "e", "n", " ">>, <<>>),
     Around(<<"c", "a", "s", "e", " ", "a", " ", "i", "n", " ", "b", ")", " ">>, <<>>)}
\* a block that closes where the closing word should be
sBlockPre == <<"{", " ">>
sBlockPost == <<" ", "}">>
\* a clause with no closing word inside what is around it
Unended(a, c, head) == [src |-> a.pre \o head \o a.post, a |-> a, c |-> c, head |-> head]
UnendedCases ==
    UNION {{Unended(a, c, head) : a \in Arounds \cup {Around(sBlockPre, sBlockPost)},
                                  head \in c.heads} : c \in Clauses}
UnendedProgs == {u.src : u \in UnendedCases}

\* the operators between two commands, and a command and an operator with
\* nothing after the operator: at the top level, on a second line, in a
\* block, in a subshell, in a command substitution and in backquotes
BinCmdOps == {<<"&", "&">>, <<"|", "|">>, <<"|">>, <<"|", "&">>}
NoRightArounds ==
    {Around(<<>>, <<>>), Around(<<"b", "\n">>, <<>>), Around(<<"{", " ">>, <<>>),
     Around(<<"{", " ">>, <<";", " ", "}">>), Around(sBlockPre, sBlockPost),
     Around(<<"(", " ">>, <<" ", ")">>), Around(sEcho \o <<"$", "(">>, <<")">>),
     Around(sEcho \o <<BQ>>, <<BQ>>)}
NoRight(a, op) == [src |-> a.pre \o <<"a", " ">> \o op \o a.post, a |-> a, op |-> op]
NoRightCases == {NoRight(a, op) : a \in NoRightArounds, op \in BinCmdOps}
NoRightProgs == {c.src : c \in NoRightCases}

\* a heredoc that is pending while a nested construct is read on the line
\* of its redirect, closed or not, and the body after that line
sHdocTail == <<"\n", "b", "\n", "E", "\n">>
BuriedWords ==
    {<<"$", "(", "d", ")">>,
     <<BQ, "d", BQ>>,
     <<"$", "{", "d", "}">>,
     <<"$", "{", "d", ":", "-", "e", "}">>,
     <<"$", "(", "(", "d", ")", ")">>,
     <<"$", "[", "d", "]">>,
     <<"\"", "d", "\"">>,
     <<"'", "d", "'">>,
     <<"<", "(", "d", ")">>,
     <<"$", "(", "d">>,
     <<"$", "{", "d">>,
     <<"$", "(", "(", "d">>,
     <<"\"", "d">>,
     <<"$", "{", "d", "[", "1">>,
     <<BQ, "d">>}
BuriedCmds ==
    {<<"(", "d", ")">>,
     <<"(", "(", "d", ")", ")">>,
     <<"c", "a", "s", "e", " ", "x", " ", "i", "n", " ", "y", ")", " ", "d", ";", ";", " ", "e", "s", "a", "c">>,
     <<"l", "e", "t", " ", "d">>,
     <<"[", "[", " ", "a", " ", "=", "~", " ", "d", " ", "]", "]">>,
     <<"f", "o", "r", " ", "(", "(", ";", ";", ")", ")", ";", " ", "d", "o", " ", "d", ";", " ", "d", "o", "n", "e">>,
     <<"(", "d">>,
     <<"(", "(", "d">>,
     <<"c", "a", "s", "e", " ", "x", " ", "i", "n", " ", "y", ")", " ", "d">>}
BuriedProgs ==
    {<<"c", " ", "<", "<", "E", " ">> \o w \o sHdocTail : w \in BuriedWords}
        \cup {<<"<", "<", "E", " ">> \o c \o sHdocTail : c \in BuriedCmds}

\* texts where the scan for the )) of a (( or $(( crosses a newline, with
\* and without a heredoc waiting for its body
ScanProgs ==
    {<<"c", " ", "<", "<", "E", " ", "$", "(", "(", "a", ")", "\n", "x", "\n", "E", "\n">>,
     <<"c", " ", "<", "<", "E", " ", "$", "(", "(", "a", ")", ")", "\n", "x", "\n", "E", "\n">>,
     <<"(", "(", "a", "\n", ")", ")">>,
     <<"(", "(", "a", "\n", ")">>,
     <<"e", "c", "h", "o", " ", "$", "(", "(", "a", "\n", "b", ")", ")">>,
     <<"e", "c", "h", "o", " ", "$", "(", "(", "a", "\n", "b", ")">>}

\* commands with heredocs among redirections of the other kinds
RedirProgs ==
    {<<"c", " ", "<", "<", "E", " ", "<", "<", "<", "w", " ", ">", "f", "\n", "x", "\n", "E", "\n">>,
     <<"c", " ", "<", "<", "-", "E", " ", "2", ">", "&", "1", " ", "<", "<", "<", "w", "\n", "\t", "x", "\n", "E", "\n">>,
     <<"c", " ", "<", "<", "E", " ", ">", "$", "(", "d", " ", "<", "<", "F", "\n", "y", "\n", "F", "\n", ")", "\n", "x", "\n", "E", "\n">>,
     <<"c", " ", "<", "<", "<", "a", " ", "<", "b">>,
     <<"c", " ", ">", "f", " ", "<", "<", "E", "\n", "x", "\n", "E">>}

\* heredocs whose stop word is quoted in each of the ways, in part or as a
\* whole, with a body that holds an expansion and ends with the line of the
\* stop word without its quoting
HdocWordProgs ==
    {<<"c", " ", "<", "<", "E", "\n", "$", "x", "\n", "E", "\n">>,
     <<"c", " ", "<", "<", "-", "E", "\n", "\t", "$", "x", "\n", "\t", "E", "\n">>,
     <<"c", " ", "<", "<", "'", "E", "'", "\n", "$", "x", "\n", "E", "\n">>,
     <<"c", " ", "<", "<", "-", "'", "E", "'", "\n", "\t", "$", "x", "\n", "\t", "E", "\n">>,
     <<"c", " ", "<", "<", "\"", "E", "\"", "\n", "$", "x", "\n", "E", "\n">>,
     <<"c", " ", "<", "<", "-", "\"", "E", "\"", "\n", "\t", "$", "x", "\n", "\t", "E", "\n">>,
     <<"c", " ", "<", "<", "\\", "E", "\n", "$", "x", "\n", "E", "\n">>,
     <<"c", " ", "<", "<", "-", "\\", "E", "\n", "\t", "$", "x", "\n", "\t", "E", "\n">>,
     <<"c", " ", "<", "<", "E", "\\", "F", "\n", "$", "x", "\n", "E", "F", "\n">>,
     <<"c", " ", "<", "<", "-", "E", "\\", "F", "\n", "\t", "$", "x", "\n", "\t", "E", "F", "\n">>,
     <<"c", " ", "<", "<", "E", "'", "F", "'", "\n", "$", "x", "\n", "E", "F", "\n">>,
     <<"c", " ", "<", "<", "-", "E", "'", "F", "'", "\n", "\t", "$", "x", "\n", "\t", "E", "F", "\n">>,
     <<"c", " ", "<", "<", "\"", "E", "\"", "F", "\n", "$", "x", "\n", "E", "F", "\n">>,
     <<"c", " ", "<", "<", "-", "\"", "E", "\"", "F", "\n", "\t", "$", "x", "\n", "\t", "E", "F", "\n">>,
     <<"c", " ", "<", "<", "\\", "E", "\\", "F", "\n", "$", "x", "\n", "E", "F", "\n">>,
     <<"c", " ", "<", "<", "-", "\\", "E", "\\", "F", "\n", "\t", "$", "x", "\n", "\t", "E", "F", "\n">>,
     <<"c", " ", "<", "<", "\"", "E", "\\", "\"", "F", "\"", "\n", "$", "x", "\n", "E", "\"", "F", "\n">>,
     <<"c", " ", "<", "<", "-", "\"", "E", "\\", "\"", "F", "\"", "\n", "\t", "$", "x", "\n", "\t", "E", "\"", "F", "\n">>}

\* parameter expansions with and without a name after ${ and after ${#
ParamNameProgs ==
    {<<"$", "{", "}">>,
     <<"e", "c", "h", "o", " ", "$", "{", " ", "}">>,
     <<"$", "{", ":", "-", "a", "}">>,
     <<"a", "\n", "$", "{", "}">>,
     <<"$", "{", "#", "}">>,
     <<"$", "{", "#", "a", "}">>,
     <<"$", "{", "#", "@", "}">>,
     <<"$", "{", "#", ":", "-", "x", "}">>,
     <<"$", "{", "#", "%", "a", "}">>,
     <<"$", "{", "#", "+", "a", "}">>,
     <<"e", "c", "h", "o", " ", "$", "{", "#", "=", "}">>}

\* arithmetic: a prefix operator before the first of two operands, with a
\* binary operator of each level but the ternary between them
Prefixes == {<<"+">>, <<"-">>, <<"!">>, <<"+", "+">>, <<"-", "-">>}
UnaryLevels == Levels \ {3}
PrefixThenOp(u, op) ==
    ArithmExp(u \o <<Operands[1], " ">> \o op \o <<" ", Operands[2]>>)
UnaryProgs == {PrefixThenOp(u, OpOf(l, 0)) : u \in Prefixes, l \in UnaryLevels}

\* a reserved word as the last argument of a simple command, in the
\* construct that the word closes or continues when it starts a statement,
\* and then the same text with an ordinary word of the same length
ArgCase(pre, w, post) == [pre |-> pre, w |-> w, post |-> post]
ArgCases ==
    {ArgCase(<<"i", "f", " ", "f", "o", "o", " ">>, <<"t", "h", "e", "n">>, <<>>),
     ArgCase(<<"i", "f", " ", "a", ";", " ", "t", "h", "e", "n", " ", "b", " ">>, <<"f", "i">>, <<>>),
     ArgCase(<<"i", "f", " ", "a", ";", " ", "t", "h", "e", "n", " ", "b", " ">>, <<"e", "l", "s", "e">>, <<>>),
     ArgCase(<<"i", "f", " ", "a", ";", " ", "t", "h", "e", "n", " ", "b", " ">>, <<"e", "l", "i", "f">>, <<>>),
     ArgCase(<<"w", "h", "i", "l", "e", " ", "a", " ">>, <<"d", "o">>, <<>>),
     ArgCase(<<"w", "h", "i", "l", "e", " ", "a", ";", " ", "d", "o", " ", "b", " ">>, <<"d", "o", "n", "e">>, <<>>),
     ArgCase(<<"u", "n", "t", "i", "l", " ", "a", " ">>, <<"d", "o">>, <<>>),
     ArgCase(<<"{", " ", "a", " ">>, <<"}">>, <<>>),
     ArgCase(<<"i", "f", " ", "a", ";", " ", "t", "h", "e", "n", " ", "b", ";", " ", "e", "l", "i", "f", " ", "c", " ">>, <<"t", "h", "e", "n">>, <<>>),
     ArgCase(<<"i", "f", " ", "a", ";", " ", "t", "h", "e", "n", " ", "b", ";", " ", "e", "l", "s", "e", " ", "c", " ">>, <<"f", "i">>, <<>>),
     ArgCase(<<"c", "a", "s", "e", " ", "a", " ", "i", "n", " ", "b", ")", " ", "c", " ">>, <<"e", "s", "a", "c">>, <<>>),
     ArgCase(<<"f", "o", "r", " ", "i", " ", "i", "n", " ", "a", ";", " ", "d", "o", " ", "b", " ">>, <<"d", "o", "n", "e">>, <<>>),
     ArgCase(<<"i", "f", " ", "a", ";", " ", "t", "h", "e", "n", " ", "e", "c", "h", "o", " ">>, <<"f", "i">>, <<";", " ", "f", "i">>),
     ArgCase(<<"{", " ", "e", "c", "h", "o", " ">>, <<"}">>, <<";", " ", "}">>),
     ArgCase(<<"e", "c", "h", "o", " ">>, <<"t", "h", "e", "n">>, <<>>),
     ArgCase(<<"e", "c", "h", "o", " ">>, <<"d", "o">>, <<>>),
     ArgCase(<<"e", "c", "h", "o", " ">>, <<"f", "i">>, <<>>),
     ArgCase(<<"e", "c", "h", "o", " ">>, <<"d", "o", "n", "e">>, <<>>),
     ArgCase(<<"e", "c", "h", "o", " ">>, <<"e", "l", "i", "f">>, <<>>),
     ArgCase(<<"e", "c", "h", "o", " ">>, <<"e", "l", "s", "e">>, <<>>),
     ArgCase(<<"e", "c", "h", "o", " ">>, <<"e", "s", "a", "c">>, <<>>),
     ArgCase(<<"e", "c", "h", "o", " ">>, <<"}">>, <<>>)}
Ordinary(w) == [i \in 1..Len(w) |-> "x"]
ArgRuns ==
    {<<In(c.pre \o c.w \o c.post, bashMode), In(c.pre \o Ordinary(c.w) \o c.post, bashMode)>> :
         c \in ArgCases}

\* the words that start a clause in the extended dialect only, each alone
\* and with an operand
ClauseWords ==
    {sDblLbrack, sDeclare, sLocal, sExport, sReadonly, sTypeset, sNameref, sEval, sCoproc,
     sLet, sFunction}
\* ((a b)) and $[a b]
pTwoInParens == <<"(", "(", "a", " ", "b", ")", ")">>
pTwoInBrackets == <<"$", "[", "a", " ", "b", "]">>
DialectProgs ==
    ClauseWords \cup {w \o <<" ", "a">> : w \in ClauseWords}
        \cup {pTwoInParens, pTwoInBrackets}

\* the pool: a text is parsed by the first parser of the program, then
\* another text is parsed, which leaves the pooled parser as it ends, and
\* then the first text is parsed again
\* ab=c <<X <<Y <<Z
lHdocs ==
    <<"a", "b", "=", "c", " ", "<", "<", "X", " ", "<", "<", "Y", " ", "<", "<", "Z">>
\* $(a <<E
lNested == <<"$", "(", "a", " ", "<", "<", "E">>
\* (ab=c
lSubshell == <<"(", "a", "b", "=", "c">>
\* "abc
lQuote == <<"\"", "a", "b", "c">>
\* ((ab
lArithm == <<"(", "(", "a", "b">>
Leavers == {lHdocs, lNested, lSubshell, lQuote, lArithm}
\* a=b
qAssign == <<"a", "=", "b">>
\* a b
qCall == <<"a", " ", "b">>
\* (a
qSubshell == <<"(", "a">>
Probes ==
    {qAssign, qCall, qSubshell, HdocProg(2, <<"$", "(", "<", "<", "A", " ", "<", "<", "B", ")">>, TRUE),
     NestedHdoc(CHOOSE c \in Nestings : c.open = <<"(">>)}
PoolRuns ==
    {<<In(q, bashMode), In(l, posixMode), In(q, bashMode)>> : q \in Probes, l \in Leavers}

\* the texts that are printed: texts of the table of printer_test.go, and
\* with them a subshell with a redirection, as TestWriteErr prints one, an
\* if clause on one line, and a heredoc with a statement on the next line
PrintSrcs ==
    {<<"f", "o", "o", ";", " ", "b", "a", "r">>,
     <<"f", "o", "o", "\n", "\n", "\n", "b", "a", "r">>,
     <<"f", "o", "o", "\n", "\n">>,
     <<"\n", "\n", "f", "o", "o">>,
     <<"i", "f", " ", "a", "\n", "t", "h", "e", "n", "\n", "\t", "b", "\n", "f", "i">>,
     <<"i", "f", " ", "a", ";", " ", "t", "h", "e", "n", "\n", "b", "\n", "e", "l", "s", "e", "\n", "f", "i">>,
     <<"f", "o", "o", " ", ">", "&", "2", " ", "<", "f", " ", "b", "a", "r">>,
     <<"f", "o", "o", " ", ">", "&", "2", " ", "b", "a", "r", " ", "<", "f">>,
     <<"f", "o", "o", " ", ">", "&", "2", " ", "b", "a", "r", " ", "<", "f", " ", "b", "a", "r", "2">>,
     <<"f", "o", "o", " ", "<", "<", "E", "O", "F", " ", "b", "a", "r", "\n", "l", "1", "\n", "E", "O", "F">>,
     <<"f", "o", "o", " ", "<", "<", "E", "O", "F", "\n", "l", "1", "\n", "E", "O", "F", "\n", "\n", "f", "o", "o", "2">>,
     <<"<", "<", "E", "O", "F">>,
     <<"f", "o", "o", " ", "<", "<", "E", "O", "F", "\n", "E", "O", "F", "\n", "\n", "b", "a", "r">>,
     <<"f", "o", "o", " ", "<", "<", "'", "E", "O", "F", "'", "\n", "E", "O", "F", "\n", "\n", "b", "a", "r">>,
     <<"{", " ", "f", "o", "o", ";", " ", "b", "a", "r", ";", " ", "}">>,
     <<"(", "a", ")", " ", ">", "f", "o", "o">>,
     <<"f", "o", "o", " ", "<", "<", "E", "O", "F", "\n", "l", "1", "\n", "E", "O", "F", "\n", "f", "o", "o", "2">>,
     <<"i", "f", " ", "a", ";", " ", "t", "h", "e", "n", " ", "b", ";", " ", "f", "i">>}

\* a run of the printer test: the text, and the text between two newlines
PrintRuns ==
    {<<In(s, commentsMode), In(<<"\n">> \o s \o <<"\n">>, commentsMode)>> : s \in PrintSrcs}

\* the calls of one run: an input under PosixConformant and then in the
\* extended dialect, or a run of the pool
Inputs ==
    {<<In(src, posixMode), In(src, bashMode)>> :
         src \in Sources \cup DialectProgs \cup FeatureProgs}
        \cup PoolRuns
        \cup {<<In(src, bashMode)>> : src \in PrecProgs \cup DblParenProgs \cup StartProgs
                                           \cup UnendedProgs \cup NoRightProgs
                                           \cup BuriedProgs \cup ScanProgs
                                                  \cup RedirProgs \cup HdocWordProgs
                                                  \cup ParamNameProgs \cup UnaryProgs}
        \cup NamedRuns
        \cup UnclosedRuns
        \cup ArgRuns

---------------------------------------------------------------------------
(* The printer.  Fprint walks a File and writes it to a sink piece by       *)
(* piece: the words, operators, indentation and newlines of each statement  *)
(* in turn.  The sink is an io.Writer: each Write is accepted or fails      *)
(* with an error of the sink's own.                                         *)

\* the text of a word part: literals and single-quoted strings
partText(wp) ==
    CASE wp.t = "Lit" -> wp.Value
      [] wp.t = "SglQuoted" ->
           (IF wp.Dollar THEN <<"$">> ELSE <<>>) \o <<"'">> \o wp.Value \o <<"'">>
      [] OTHER -> <<>>

\* the text of a word
wordText(w) ==
    IF w = Nil THEN <<>> ELSE Concat([i \in 1..Len(w.Parts) |-> partText(w.Parts[i])])

\* the stop word of a heredoc, as the lines of its body are compared to it
unquotedWord(w) ==
    Concat([i \in 1..Len(w.Parts) |->
               CASE w.Parts[i].t = "SglQuoted" -> w.Parts[i].Value
                 [] w.Parts[i].t = "Lit" /\ byteAt(w.Parts[i].Value, 0) = "\\" ->
                      Slice(w.Parts[i].Value, 1, Len(w.Parts[i].Value))
                 [] OTHER -> partText(w.Parts[i])])

\* the text of a redirection: its descriptor, operator and word
redirText(r) ==
    (IF r.N = Nil THEN <<>> ELSE r.N.Value) \o TokStr(r.Op) \o wordText(r.Word)

\* the redirections of a statement
redirsOf(f, s) == [i \in 1..Len(s.Redirs) |-> f.R[s.Redirs[i]]]

\* the heredocs of a statement
hdocsOf(f, s) == SelectSeq(redirsOf(f, s), LAMBDA r : r.Op \in {"hdoc", "dashHdoc"})

\* items on one line: a space before each but the first
withSpaces(items) ==
    [i \in 1..Len(items) |-> IF i = 1 THEN items[i] ELSE <<" ">> \o items[i]]

\* a simple command: its name, the redirections written before its first
\* argument, its arguments, and then the other redirections, the heredocs
\* among them
callItems(f, s) ==
    LET args == s.Cmd.Args
        rs == redirsOf(f, s)
        early(r) ==
            /\ r.Op \notin {"hdoc", "dashHdoc"}
            /\ Len(args) > 1
            /\ r.OpPos < wordPos(args[2])
        late(r) == ~early(r)
        texts(q) == [i \in 1..Len(q) |-> redirText(q[i])]
    IN  <<wordText(args[1])>> \o texts(SelectSeq(rs, early))
            \o [i \in 1..(Len(args) - 1) |-> wordText(args[i + 1])]
            \o texts(SelectSeq(rs, late))

\* the source line of a position
lineOf(f, pos) == Position(f.Lines, pos).Line

\* the number of newlines of a text
newlines(text) == Len(SelectSeq(text, LAMBDA b : b = "\n"))

\* the source line on which a statement ends: the line of its last token
\* and the lines of its heredocs, each with the line of its stop word
endLine(f, s) ==
    LET c == s.Cmd
        hs == hdocsOf(f, s)
        last == CASE c = Nil -> s.Position
                  [] c.t = "Subshell" -> c.Rparen
                  [] c.t = "Block" -> c.Rbrace
                  [] c.t = "IfClause" -> c.Fi
                  [] OTHER -> s.Position
    IN  lineOf(f, last)
            + newlines(Concat([i \in 1..Len(hs) |-> wordText(hs[i].Hdoc)])) + Len(hs)

\* a blank line is written before every statement, the first one too, that
\* the source does not start on the line after the one before it
blankBeforeAny(f, sts, i) ==
    lineOf(f, sts[i].Position) > (IF i > 1 THEN endLine(f, sts[i - 1]) ELSE 0) + 1

\* a blank line is written before a statement that the source separates by
\* one or more blank lines from the statement before it
blankBefore(f, sts, i) ==
    i > 1 /\ lineOf(f, sts[i].Position) > endLine(f, sts[i - 1]) + 1

\* the bodies of the heredocs of a statement, each followed by its stop
\* word on a line of its own
hdocsOut(f, s) ==
    LET hs == hdocsOf(f, s)
        one(r) == (IF wordText(r.Hdoc) = <<>> THEN <<>> ELSE <<wordText(r.Hdoc)>>)
                      \o <<unquotedWord(r.Word) \o <<"\n">>>>
    IN  Concat([i \in 1..Len(hs) |-> one(hs[i])])

indent(n) == [i \in 1..n |-> "\t"]

\* a block or subshell is written on several lines when it holds more than
\* one statement or spans several lines of the source
multiLine(f, sts, open, close) == Len(sts) > 1 \/ lineOf(f, open) # lineOf(f, close)

RECURSIVE stmtOut(_, _, _)
RECURSIVE stmtsOut(_, _, _, _)
RECURSIVE compactOut(_, _, _)

\* statements on one line, with ; between them
compactOut(f, sts, i) ==
    IF i > Len(sts) THEN <<>>
    ELSE (IF i > 1 THEN <<<<";", " ">>>> ELSE <<>>) \o stmtOut(f, sts[i], 0)
             \o compactOut(f, sts, i + 1)

\* the pieces of a statement at the indentation n, without its heredocs
stmtOut(f, s, n) ==
    LET c == s.Cmd
        rs == redirsOf(f, s)
        after == [i \in 1..Len(rs) |-> <<" ">> \o redirText(rs[i])]
        body(sts) == stmtsOut(f, sts, n + 1, 1)
    IN  CASE c = Nil -> withSpaces([i \in 1..Len(rs) |-> redirText(rs[i])])
          [] c.t = "CallExpr" -> withSpaces(callItems(f, s))
          [] c.t = "Subshell" ->
               (IF multiLine(f, c.Stmts, c.Lparen, c.Rparen)
                THEN <<<<"(">>, <<"\n">>>> \o body(c.Stmts) \o <<indent(n) \o <<")">>>>
                ELSE <<<<"(">>>> \o compactOut(f, c.Stmts, 1) \o <<<<")">>>>) \o after
          [] c.t = "Block" ->
               (IF multiLine(f, c.Stmts, c.Lbrace, c.Rbrace)
                THEN <<sLbrace, <<"\n">>>> \o body(c.Stmts) \o <<indent(n) \o sRbrace>>
                ELSE <<sLbrace \o <<" ">>>> \o compactOut(f, c.Stmts, 1)
                         \o <<<<";", " ">> \o sRbrace>>) \o after
          [] c.t = "IfClause" ->
               <<sIf \o <<" ">>>> \o compactOut(f, c.CondStmts, 1)
                   \o <<<<";", " ">> \o sThen, <<"\n">>>> \o body(c.ThenStmts)
                   \o (IF c.ElseStmts = <<>> THEN <<>>
                       ELSE <<indent(n) \o sElse, <<"\n">>>> \o body(c.ElseStmts))
                   \o <<indent(n) \o sFi>> \o after
          [] OTHER -> <<>>

\* the pieces of the statements from the i-th on, one statement to a line
stmtsOut(f, sts, n, i) ==
    IF i > Len(sts) THEN <<>>
    ELSE (IF blankBefore(f, sts, i) THEN <<<<"\n">>>> ELSE <<>>)
             \o (IF n > 0 THEN <<indent(n)>> ELSE <<>>)
             \o stmtOut(f, sts[i], n) \o <<<<"\n">>>> \o hdocsOut(f, sts[i])
             \o stmtsOut(f, sts, n, i + 1)

\* the error of the k-th Write of a sink that fails; the errors of two
\* Writes are told apart, as a sink is free to return any error
errBadWriter(k) == [t |-> "error", text |-> "write: expected error", write |-> k]

\* one Write: the sink takes the piece or fails
write(pr, ok) ==
    IF ok
    THEN [pr EXCEPT !.pc = @ + 1, !.pieces = Tail(@), !.out = @ \o Head(pr.pieces)]
    ELSE [pr EXCEPT !.pc = @ + 1, !.pieces = Tail(@), !.err = errBadWriter(pr.pc + 1)]

\* the walk goes on to the last piece, whatever the sink has answered
walkedAll(pr) == pr.pieces = <<>>

\* the walk is over: nothing is left, or a Write has failed
walked(pr) == pr.pieces = <<>> \/ pr.err # Nil

\* the run is one of the printer test
printing == rets # <<>> /\ rets[1].src \in PrintSrcs /\ rets[1].mode = commentsMode

\* func (c PrintConfig) Fprint(w io.Writer, f *File) error, called on the File
\* that the last call of Parse returned in a run of the printer test: out is
\* what the sink has taken and err the error that Fprint returns
Fprint ==
    IF calls = <<>>
    THEN /\ printing
         /\ rets[Len(rets)].err = NoErr
         /\ "out" \notin DOMAIN rets[Len(rets)]
         /\ calls' = <<Entered([fn |-> "Fprint", pc |-> 0,
                                pieces |-> stmtsOut(rets[Len(rets)].f, rets[Len(rets)].f.Stmts,
                                                    0, 1),
                                out |-> <<>>, err |-> Nil], p)>>
         /\ UNCHANGED <<p, rv, todo, rets>>
    ELSE /\ Running("Fprint")
         /\ IF walked(Top)
            THEN /\ calls' = <<>>
                 /\ rets' = [rets EXCEPT ![Len(rets)] =
                                 @ @@ [out |-> Top.out, werr |-> Top.err, writes |-> Top.pc]]
                 /\ UNCHANGED <<p, rv, todo>>
            ELSE /\ \E ok \in BOOLEAN : calls' = <<write(Top, ok)>>
                 /\ UNCHANGED <<p, rv, todo, rets>>

\* the last step of the printer test: the text that was printed is parsed
\* in its turn
check ==
    /\ calls = <<>>
    /\ todo = <<>>
    /\ Len(rets) = 2
    /\ printing
    /\ \A i \in 1..2 : "out" \in DOMAIN rets[i] /\ rets[i].werr = Nil
    /\ todo' = <<In(rets[1].out, commentsMode)>>
    /\ UNCHANGED <<p, calls, rv, rets>>

Init ==
    /\ p = NewParser
    /\ calls = <<>>
    /\ rv = Nil
    /\ rets = <<>>
    /\ todo \in Inputs

Next ==
    \/ Parse
    \/ next
    \/ doHeredocs
    \/ got
    \/ gotRsrv
    \/ gotSameLine
    \/ follow
    \/ followRsrv
    \/ followStmts
    \/ followWordTok
    \/ followWord
    \/ stmtEnd
    \/ matched
    \/ stmts
    \/ getWord
    \/ getWordOrEmpty
    \/ getLit
    \/ wordParts
    \/ wordPart
    \/ couldBeArithm
    \/ arithmExpr
    \/ arithmExprBase
    \/ arithmEnd
    \/ paramExp
    \/ getAssign
    \/ doRedirect
    \/ getStmt
    \/ gotStmtPipe
    \/ callExpr
    \/ funcDecl
    \/ subshell
    \/ arithmExpCmd
    \/ block
    \/ ifClause
    \/ whileClause
    \/ untilClause
    \/ forClause
    \/ loop
    \/ caseClause
    \/ patLists
    \/ testClause
    \/ testExpr
    \/ testExprBase
    \/ declClause
    \/ evalClause
    \/ coprocClause
    \/ letClause
    \/ bashFuncDecl

Spec == Init /\ [][Next]_vars

\* where control is: the function and the position of every frame of the
\* call stack, the byte cursor, and the calls still to make
Control == <<[i \in 1..Len(calls) |-> <<calls[i].fn, calls[i].pc>>], p.npos, Len(todo)>>

\* Parse runs to its return statement: the program is sequential and no
\* step of it waits on anything, so control moves on while a step is possible
FairSpec == Spec /\ WF_Control(Next)

\* every step moves control
ControlMoves == [][Control' # Control]_vars

\* a run of the printer test: each text is parsed and printed, and what was
\* printed for the first is parsed and printed in its turn
PrintInit ==
    /\ p = NewParser
    /\ calls = <<>>
    /\ rv = Nil
    /\ rets = <<>>
    /\ todo \in PrintRuns

\* Parse with the methods that it calls for the texts of the printer test,
\* Fprint, and the last step of the test
PrintNext ==
    \/ Parse
    \/ next
    \/ doHeredocs
    \/ got
    \/ gotRsrv
    \/ gotSameLine
    \/ followRsrv
    \/ followStmts
    \/ followWordTok
    \/ stmtEnd
    \/ matched
    \/ stmts
    \/ getWord
    \/ getWordOrEmpty
    \/ getLit
    \/ wordParts
    \/ wordPart
    \/ doRedirect
    \/ getStmt
    \/ gotStmtPipe
    \/ callExpr
    \/ subshell
    \/ block
    \/ ifClause
    \/ Fprint
    \/ check

PrintSpec == PrintInit /\ [][PrintNext]_vars

---------------------------------------------------------------------------
(* The error of a call.                                                    *)

\* a call of Parse is running and has recorded an error
Failed == calls # <<>> /\ p.err # NoErr

\* the step of arithmExpCmd or of wordPart that follows the subshell or the
\* command substitution read in place of a (( or $(( that does not end in ))
ArithmFallback ==
    /\ Failed
    /\ \/ Top.fn = "arithmExpCmd" /\ Top.pc = 2
       \/ Top.fn = "wordPart" /\ Top.pc = 4

\* the error of a (( or $(( that is not closed: it is at the (( or $((
UnclosedArithm(fr) ==
    LET left == IF fr.fn = "arithmExpCmd" THEN fr.ar.Left ELSE fr.n.Left
        at == Position(p.f.Lines, left)
    IN  [Offset |-> at.Offset, Line |-> at.Line, Column |-> at.Column,
         Filename |-> p.f.Name, Text |-> "reached %s without matching %s with %s",
         Args |-> <<<<"E", "O", "F">>,
                    IF fr.fn = "arithmExpCmd" THEN <<"(", "(">> ELSE <<"$", "(", "(">>,
                    <<")", ")">>>>]

\* the call returns the error the parser holds
ReturnsErr == calls # <<>> /\ calls' = <<>> => rets'[Len(rets')].err = p.err

\* C1, as stated: once an error has been recorded, no later step of the
\* call clears it or replaces it with a different error, and Parse returns it
C1_FirstErrorIsReturned == [][(Failed => p'.err = p.err) /\ ReturnsErr]_vars

\* C1, amended: once an error has been recorded, the only step of the call
\* that replaces it is the one after a (( or $(( was read again as a subshell
\* or a command substitution, which puts in its place the error of the
\* unclosed (( or $((, at the (( or $((; Parse returns the error the parser
\* holds at its return
C1_FirstErrorButArithmFallback ==
    [][/\ Failed => \/ p'.err = p.err
                    \/ ArithmFallback /\ p'.err = UnclosedArithm(Top)
       /\ ReturnsErr]_vars

\* the call that parsed ((a in the extended dialect has returned: the error
\* of the subshell, at 1:2, was replaced by the error of the ((, at 1:1
C1_Witness ==
    \E i \in 1..Len(rets) :
        /\ rets[i].src = <<"(", "(", "a">>
        /\ rets[i].mode = bashMode
        /\ rets[i].err.Line = 1 /\ rets[i].err.Column = 1
        /\ rets[i].err.Args = <<<<"E", "O", "F">>, <<"(", "(">>, <<")", ")">>>>

\* C2: from the moment an error is recorded until Parse returns, the
\* current token is EOF and the byte cursor is at the end of the source
C2_EOFAfterError == Failed => p.tok = "_EOF" /\ p.npos = Len(p.src)

\* a token read begins after an error was recorded in a heredoc body, and
\* the token stays EOF and the cursor at the end
C2_Witness ==
    /\ Failed
    /\ Running("next")
    /\ \E i \in 1..Len(calls) : calls[i].fn = "doHeredocs"
    /\ p.tok = "_EOF" /\ p.npos = Len(p.src)

---------------------------------------------------------------------------
(* Termination.                                                            *)

\* every call has returned
AllReturned == calls = <<>> /\ todo = <<>>

\* C3: Parse terminates on every input: no loop of the parser repeats with
\* the same token and cursor, so every call reaches its return
C3_ParseTerminates == <>AllReturned

\* both calls on the program with the for loop over words have returned, the
\* one in the extended dialect without error
C3_Witness ==
    /\ AllReturned
    /\ Len(rets) = 2
    /\ rets[2].src = pForIn /\ rets[2].err = NoErr
    /\ Len(rets[2].f.Stmts) = 1

---------------------------------------------------------------------------
(* Heredocs.                                                               *)

HdocOps == {"hdoc", "dashHdoc"}

\* the last call has returned, and without error
ReturnedOk == calls = <<>> /\ rets # <<>> /\ rets[Len(rets)].err = NoErr

\* C4: when Parse returns without error, the queue of pending heredocs is
\* empty and every << or <<- redirect of the returned File has its body
C4_HeredocsAttachedAtReturn ==
    ReturnedOk =>
        LET R == rets[Len(rets)].f.R
        IN  /\ p.heredocs.len = 0
            /\ \A r \in 1..Len(R) : R[r].Op \in HdocOps => R[r].Hdoc # Nil

\* the steps that close a nested context that holds statements, where the
\* statements have been read and the closing delimiter is the current token:
\* $( ), <( ) and >( ), backquotes, a subshell, the body of a case pattern.
\* Arithmetic and parameter expansions hold statements only inside one of
\* these.
NestedCloses ==
    {[fn |-> "wordPart", pc |-> 10, toks |-> {"rightParen"}],
     [fn |-> "wordPart", pc |-> 14, toks |-> {"rightParen"}],
     [fn |-> "wordPart", pc |-> 24, toks |-> {"bckQuote"}],
     [fn |-> "subshell", pc |-> 2, toks |-> {"rightParen"}],
     [fn |-> "patLists", pc |-> 8, toks |-> {"dblSemicolon", "semiFall", "dblSemiFall"}]}

\* the next step closes a nested context: it restores the saved state
ClosesNested ==
    /\ calls # <<>>
    /\ \E c \in NestedCloses : Top.fn = c.fn /\ Top.pc = c.pc /\ p.tok \in c.toks

\* C5: when a nested context closes, no heredoc queued inside it is still
\* pending: the queue is no longer than it was when the context was entered
C5_DrainedBeforeClose == ClosesNested => p.heredocs.len <= p.buriedHdocs

\* C6: pending heredocs are drained in the order they were queued: of the
\* << and <<- redirects of one statement, each has its body, and the body of
\* an earlier redirect ends before the body of a later one begins
C6_DrainedInOrder ==
    ReturnedOk =>
        LET f == rets[Len(rets)].f
        IN  \A k \in 1..Len(f.Stmts) :
                LET rs == f.Stmts[k].Redirs
                IN  \A i, j \in 1..Len(rs) :
                        i < j /\ f.R[rs[i]].Op \in HdocOps /\ f.R[rs[j]].Op \in HdocOps =>
                            /\ f.R[rs[i]].Hdoc # Nil
                            /\ f.R[rs[j]].Hdoc # Nil
                            /\ wordEnd(f.R[rs[i]].Hdoc) <= wordPos(f.R[rs[j]].Hdoc)

---------------------------------------------------------------------------
(* C7: the pooled parser *)

\* a parser field by field: what Parse finds in the parser it has acquired
\* and reset, for the call c
Fresh(c) ==
    [dropGarbage(reset(NewParser)) EXCEPT !.f = NewFile(c.name), !.src = c.src,
                                          !.mode = c.mode]
\* Parse acquires a parser
Acquires == calls = <<>> /\ calls' # <<>>
\* the last call of a run of the pool returns
PoolRunReturns == calls # <<>> /\ calls' = <<>> /\ Len(rets') = 3
\* the fields reset() and Parse assign
ResetFields(ps) ==
    <<ps.npos, ps.mode, ps.err, ps.heredocs.len, ps.buriedHdocs, ps.tok, ps.quote,
      ps.spaced, ps.newLine, ps.src, ps.f>>
\* the fields of the pending token that reset() leaves
TokenFields(ps) == <<ps.val, ps.pos, ps.asPos>>

---------------------------------------------------------------------------
(* C8: the two dialects *)

\* a text has been parsed under PosixConformant and then in the extended
\* dialect
BothDialects ==
    /\ AllReturned
    /\ Len(rets) = 2
    /\ rets[1].src = rets[2].src
    /\ rets[1].mode.PosixConformant
    /\ ~rets[2].mode.PosixConformant

Occurs(w, s) == \E i \in 1..(Len(s) - Len(w) + 1) : SubSeq(s, i, i + Len(w) - 1) = w
\* the tokens of the extended dialect only
BashTokens ==
    {<<"(", "(">>, <<"$", "[">>, <<"$", "'">>, <<"$", "\"">>, <<"&", ">">>, <<"|", "&">>,
     <<";", "&">>, <<"<", "<", "<">>, <<"<", "(">>, <<">", "(">>, <<"?", "(">>, <<"*", "(">>,
     <<"+", "(">>, <<"@", "(">>, <<"!", "(">>}
\* no word and no token of the extended dialect only stands in the text
PosixText(s) == \A w \in ClauseWords \cup BashTokens : ~Occurs(w, s)

---------------------------------------------------------------------------
(* C9: the separators of a statement list *)

\* the first statements that end with a closing token: a word after them,
\* with nothing but a blank between, is a second statement
ClosedStmts == {f \in FirstStmts : f[Len(f)] \in {")", "}"}}
\* the error of stmts for a statement that starts at byte pos of line 1
NotSeparated(pos) ==
    [Offset |-> pos - 1, Line |-> 1, Column |-> pos, Filename |-> <<>>,
     Text |-> "statements must be separated by &, ; or a newline", Args |-> <<>>]
\* a call has returned
Returned == calls = <<>> /\ rets # <<>>

\* C9 as stated: two statements of a list with `;`, `&` or a newline between
\* them are parsed without error, whatever the form of the first; with
\* nothing between them on one line Parse fails with `statements must be
\* separated by &, ; or a newline` at the start of the second
C9_SeparatedStatements ==
    Returned =>
        LET r == rets[Len(rets)]
        IN  /\ \A first \in FirstStmts, sep \in Separators :
                   r.src = TwoStmts(first, sep) => r.err = NoErr
            /\ \A first \in ClosedStmts :
                   r.src = TwoStmts(first, NoSeparator)
                       => r.err = NotSeparated(Len(first) + Len(NoSeparator) + 1)

---------------------------------------------------------------------------
(* C10: the associativity of the arithmetic operators *)

\* the expression of the arithmetic expansion that is the one word of the
\* one statement of a File
ArithmOf(f) == f.Stmts[1].Cmd.Args[1].Parts[1].X
\* the node x is the operand named v
IsOperand(x, v) == x.t = "Word" /\ Len(x.Parts) = 1 /\ x.Parts[1].Value = <<v>>
IsBinary(x) == x.t = "BinaryArithm"
\* BinaryArithm(op, BinaryArithm(op, a, b), c)
LeftNested(x) ==
    /\ IsBinary(x)
    /\ IsBinary(x.X)
    /\ x.X.Op = x.Op
    /\ IsOperand(x.X.X, Operands[1])
    /\ IsOperand(x.X.Y, Operands[2])
    /\ IsOperand(x.Y, Operands[3])
\* BinaryArithm(op, a, BinaryArithm(op, b, c))
RightNested(x) ==
    /\ IsBinary(x)
    /\ IsBinary(x.Y)
    /\ x.Y.Op = x.Op
    /\ IsOperand(x.X, Operands[1])
    /\ IsOperand(x.Y.X, Operands[2])
    /\ IsOperand(x.Y.Y, Operands[3])
\* a ? b : c ? d : e with the second ternary as the right operand of the
\* first
TernaryNested(x) ==
    /\ IsBinary(x) /\ x.Op = "quest"
    /\ IsOperand(x.X, Operands[1])
    /\ IsBinary(x.Y) /\ x.Y.Op = "colon"
    /\ IsOperand(x.Y.X, Operands[2])
    /\ IsBinary(x.Y.Y) /\ x.Y.Y.Op = "quest"
    /\ IsOperand(x.Y.Y.X, Operands[3])
    /\ IsBinary(x.Y.Y.Y) /\ x.Y.Y.Y.Op = "colon"
    /\ IsOperand(x.Y.Y.Y.X, Operands[4])
    /\ IsOperand(x.Y.Y.Y.Y, Operands[5])

\* C10 as stated: a op b op c is BinaryArithm(op, BinaryArithm(op, a, b), c)
\* for a binary operator op that is neither of the assignment family nor of
\* the ternary, and has the right operand nested for the operators of the
\* assignment family and for the ternary
C10_Associativity ==
    Returned =>
        LET r == rets[Len(rets)]
        IN  /\ \A op \in LeftOps :
                   r.src = ArithmExp(Operation(op, 3))
                       => r.err = NoErr /\ LeftNested(ArithmOf(r.f))
            /\ \A op \in AssignOps :
                   r.src = ArithmExp(Operation(op, 3))
                       => r.err = NoErr /\ RightNested(ArithmOf(r.f))
            /\ r.src = ArithmExp(Ternary) => r.err = NoErr /\ TernaryNested(ArithmOf(r.f))

---------------------------------------------------------------------------
(* C11: the precedence of the arithmetic operators *)

\* the node x is the operation op, as TokStr writes its token
IsOp(x, op) == IsBinary(x) /\ TokStr(x.Op) = op
\* op1(a, op2(b, c))
RightGroup(x, op1, op2) ==
    /\ IsOp(x, op1)
    /\ IsOperand(x.X, Operands[1])
    /\ IsOp(x.Y, op2)
    /\ IsOperand(x.Y.X, Operands[2])
    /\ IsOperand(x.Y.Y, Operands[3])
\* op2(op1(a, b), c)
LeftGroup(x, op1, op2) ==
    /\ IsOp(x, op2)
    /\ IsOp(x.X, op1)
    /\ IsOperand(x.X.X, Operands[1])
    /\ IsOperand(x.X.Y, Operands[2])
    /\ IsOperand(x.Y, Operands[3])

\* C11: for two binary operators lo and hi with arithmOpLevel(lo) <
\* arithmOpLevel(hi), a lo b hi c parses as lo(a, hi(b, c)) and a hi b lo c
\* parses as lo(hi(a, b), c), both without error
C11_Precedence ==
    Returned =>
        LET r == rets[Len(rets)]
        IN  \A lo \in Levels, hi \in Levels :
                lo < hi =>
                    /\ r.src = LowHigh(lo, hi)
                           => /\ r.err = NoErr
                              /\ RightGroup(ArithmOf(r.f), OpOf(lo, hi), OpOf(hi, lo))
                    /\ r.src = HighLow(lo, hi)
                           => /\ r.err = NoErr
                              /\ LeftGroup(ArithmOf(r.f), OpOf(hi, lo), OpOf(lo, hi))

\* $((a + b * c)) has been parsed as +(a, *(b, c))
C11_Witness ==
    /\ AllReturned
    /\ rets[1].src = ArithmExp(<<"a", " ", "+", " ", "b", " ", "*", " ", "c">>)
    /\ rets[1].src = LowHigh(9, 10)
    /\ rets[1].err = NoErr
    /\ RightGroup(ArithmOf(rets[1].f), <<"+">>, <<"*">>)

---------------------------------------------------------------------------
(* C12: the colon of the ternary *)

\* the calls of arithmExpr that have taken an operator: b is the node of it
TakenOps == {i \in 1..Len(calls) : calls[i].fn = "arithmExpr" /\ calls[i].pc \in {2, 3}}

\* C12 as stated: arithmExpr makes a BinaryArithm of a `:` only in the call
\* that parses the right operand of a `?`
C12_ColonNeedsQuest == \A i \in TakenOps : calls[i].b.Op = "colon" => calls[i].tern

---------------------------------------------------------------------------
(* C13: the features of the extended dialect that PosixConformant rejects *)

\* the error with the text alone, at a column of line 1
ErrorAt(col, text) ==
    [Offset |-> col - 1, Line |-> 1, Column |-> col, Filename |-> <<>>, Text |-> text,
     Args |-> <<>>]

\* C13: under PosixConformant an array index, an array literal, a slice, a
\* replacement and a case expansion are rejected with the error of their
\* feature at the token that introduces them, and the same text parses
\* without error in the extended dialect
C13_BashFeatures ==
    BothDialects =>
        \A f \in Features :
            rets[1].src = f.src
                => rets[1].err = ErrorAt(f.col, f.text) /\ rets[2].err = NoErr

\* echo ${a:b} has been rejected under PosixConformant at column 9, the
\* colon, and parsed with a Slice in the extended dialect
C13_Witness ==
    /\ BothDialects
    /\ rets[1].src = sEcho \o <<"$", "{", "a", ":", "b", "}">>
    /\ rets[1].err = ErrorAt(9, sSlicing)
    /\ rets[2].err = NoErr
    /\ rets[2].f.Stmts[1].Cmd.Args[2].Parts[1].Slice # Nil

---------------------------------------------------------------------------
(* C14: the command heads of the two dialects *)

\* gotStmtPipe is at its switch with the word w as the current token
AtHead(w) == Running("gotStmtPipe") /\ Top.pc = 0 /\ p.tok = "_LitWord" /\ p.val = w
\* the step calls the routine fn for the command of the statement
Dispatched(fn) ==
    /\ Len(calls') = Len(calls) + 1
    /\ calls'[Len(calls')].fn = fn
    /\ calls'[Len(calls)].pc = 1
\* the step takes the word as the name of a call (or of a function, when a
\* parenthesis follows): the default case of the switch
TakenAsName(w) ==
    /\ Len(calls') = Len(calls) + 1
    /\ calls'[Len(calls')].fn = "next"
    /\ calls'[Len(calls)].pc = 2
    /\ calls'[Len(calls)].name.Value = w
\* the routine of a reserved command head
Routine(w) ==
    CASE w = sLbrace -> "block"
      [] w = sIf -> "ifClause"
      [] w = sWhile -> "whileClause"
      [] w = sUntil -> "untilClause"
      [] w = sFor -> "forClause"
      [] w = sCase -> "caseClause"
      [] w = sDblLbrack -> "testClause"
      [] w = sEval -> "evalClause"
      [] w = sCoproc -> "coprocClause"
      [] w = sLet -> "letClause"
      [] w = sFunction -> "bashFuncDecl"
      [] OTHER -> "declClause"
\* the reserved command heads of both dialects
CommonHeads == {sLbrace, sIf, sWhile, sUntil, sFor, sCase}
\* a head of the set D goes to its routine in the extended dialect and is a
\* name under PosixConformant, a head of the set B goes to its routine in both
Dispatch(D, B) ==
    /\ \A w \in D :
           AtHead(w) => IF p.mode.PosixConformant THEN TakenAsName(w)
                        ELSE Dispatched(Routine(w))
    /\ \A w \in B : AtHead(w) => Dispatched(Routine(w))

\* C14 as stated: [[, coproc, let, function and the declare family are the
\* heads that only the extended dialect sends to a routine, and {, if, while,
\* until, for, case and eval go to their routine in both dialects
C14_DialectHeads ==
    [][Dispatch(ClauseWords \ {sEval}, CommonHeads \cup {sEval})]_vars

\* C14 amended: [[, eval, coproc, let, function and the declare family are
\* the heads that only the extended dialect sends to a routine; under
\* PosixConformant each is the name of a call.  {, if, while, until, for and
\* case go to their routine in both dialects.
C14_DialectHeadsWithEval == [][Dispatch(ClauseWords, CommonHeads)]_vars

\* under PosixConformant eval has been taken as the name of a call
C14_Witness ==
    /\ p.mode.PosixConformant
    /\ Len(calls) >= 2
    /\ Top.fn = "next"
    /\ calls[Len(calls) - 1].fn = "gotStmtPipe"
    /\ calls[Len(calls) - 1].pc = 2
    /\ calls[Len(calls) - 1].name.Value = sEval

---------------------------------------------------------------------------
(* C15: (( as the head of a command *)

\* whether the first ) at parenthesis depth 0 from offset i of src on is
\* immediately followed by another )
RECURSIVE ClosesTwice(_, _, _)
ClosesTwice(src, i, depth) ==
    IF i >= Len(src) THEN FALSE
    ELSE IF src[i + 1] = "(" THEN ClosesTwice(src, i + 1, depth + 1)
    ELSE IF src[i + 1] = ")"
    THEN (IF depth = 0 THEN byteAt(src, i + 1) = ")" ELSE ClosesTwice(src, i + 1, depth - 1))
    ELSE ClosesTwice(src, i + 1, depth)
\* the step of arithmExpCmd after the scan, after the subshell read in place
\* of ((, and at its end as an arithmetic command
AfterScan == Running("arithmExpCmd") /\ Top.pc = 1
AfterReparse == Running("arithmExpCmd") /\ Top.pc = 2
ArithmCmdEnd == Running("arithmExpCmd") /\ Top.pc = 5
\* the call on top of the stack after the step
NewTop == calls'[Len(calls')]

\* C15: at a (( command head the scan says yes exactly when the first ) at
\* depth 0 is followed by another ), and then the command is an ArithmCmd;
\* otherwise the text is read again from the second ( on as a Subshell, whose
\* first statement, when it has no error, is the Subshell of that (; and an
\* error of that reading is replaced by `reached EOF without matching ((
\* with ))` at the ((
C15_DblParenHead ==
    [][/\ AfterScan =>
              /\ rv = ClosesTwice(p.src, Top.ar.Left + 1, 0)
              /\ IF rv THEN NewTop.fn = "next" /\ p'.npos = p.npos
                 ELSE /\ NewTop.fn = "subshell"
                      /\ p'.tok = "leftParen"
                      /\ p'.npos = Top.ar.Left
                      /\ p'.pos = Top.ar.Left
       /\ AfterReparse =>
              /\ rv' = rv
              /\ rv.t = "Subshell"
              /\ rv.Lparen = Top.ar.Left
              /\ IF p.err = NoErr
                 THEN /\ p'.err = NoErr
                      /\ rv.Stmts # <<>>
                      /\ rv.Stmts[1].Cmd.t = "Subshell"
                      /\ rv.Stmts[1].Cmd.Lparen = Top.ar.Left + 1
                 ELSE p'.err = UnclosedArithm(Top)
       /\ ArithmCmdEnd => rv'.t = "ArithmCmd" /\ rv'.Left = Top.ar.Left]_vars

\* ((a);(b)) has been parsed without error as a Subshell of two Subshells
C15_Witness ==
    /\ AllReturned
    /\ rets[1].src = <<"(", "(", "a", ")", ";", "(", "b", ")", ")">>
    /\ rets[1].err = NoErr
    /\ rets[1].f.Stmts[1].Cmd.t = "Subshell"
    /\ Len(rets[1].f.Stmts[1].Cmd.Stmts) = 2
    /\ rets[1].f.Stmts[1].Cmd.Stmts[1].Cmd.t = "Subshell"

---------------------------------------------------------------------------
(* C16: the text of an error with and without a file name.                 *)

\* one text has been parsed without a file name and then with one
NamedPair ==
    /\ Len(rets) = 2
    /\ rets[1].src = rets[2].src
    /\ rets[1].mode = rets[2].mode
    /\ rets[1].f.Name = <<>>
    /\ rets[2].f.Name # <<>>
\* <line>:<column>: <message> of an error
LineColText(e) ==
    Itoa(e.Line) \o <<":">> \o Itoa(e.Column) \o <<":", " ">> \o <<<<e.Text, e.Args>>>>

\* C16: when the same text is parsed with an empty and with a non-empty file
\* name, either both calls succeed or both fail with the same line, column
\* and message; Error() of the call without a name is
\* `<line>:<column>: <message>` and Error() of the call with a name is
\* `<filename>:` followed by exactly that
C16_ErrorPrefix ==
    (calls = <<>> /\ NamedPair) =>
        LET e == rets[1].err
            n == rets[2].err
        IN  /\ (e = NoErr) = (n = NoErr)
            /\ e # NoErr =>
                   /\ e.Filename = <<>>
                   /\ n.Filename = rets[2].f.Name
                   /\ <<n.Line, n.Column, n.Text, n.Args>> = <<e.Line, e.Column, e.Text, e.Args>>
                   /\ Error(e) = LineColText(e)
                   /\ Error(n) = rets[2].f.Name \o <<":">> \o Error(e)
                   /\ Head(Error(e)) # ":"

\* `echo ${foo:1}` fails at line 1, column 11 with and without a file name
C16_Witness ==
    /\ calls = <<>>
    /\ NamedPair
    /\ rets[1].src = sEcho \o <<"$", "{", "f", "o", "o", ":", "1", "}">>
    /\ Error(rets[1].err) = <<"1", ":", "1", "1", ":", " ", <<sSlicing, <<>>>>>>
    /\ Error(rets[2].err) = sFileName \o <<":">> \o Error(rets[1].err)

---------------------------------------------------------------------------
(* C17: a separator or an operator where a statement must start.           *)

\* the line of the byte after the bytes c
LineAfter(c) == 1 + Cardinality({i \in 1..Len(c) : c[i] = "\n"})
\* the column of the byte after the bytes c
ColAfter(c) ==
    LET nl == {i \in 1..Len(c) : c[i] = "\n"}
        last == IF nl = {} THEN 0 ELSE CHOOSE i \in nl : \A j \in nl : j <= i
    IN  Len(c) - last + 1
\* the error of invalidStmtStart for the token y after the bytes c
StartErr(c, y) ==
    [Offset |-> Len(c), Line |-> LineAfter(c), Column |-> ColAfter(c),
     Filename |-> rets[Len(rets)].f.Name,
     Text |-> "%s can only immediately follow a statement", Args |-> <<y>>]

\* C17 as stated: when `;`, `&`, `|`, `||` or `&&` is the token at the start
\* of the input, after a separator, after a newline or at the start of a
\* block or subshell, Parse fails with `<sym> can only immediately follow a
\* statement` at that token
C17_InvalidStart ==
    Returned =>
        \A c \in StartCtxs, y \in StartSyms, t \in StartTails :
            rets[Len(rets)].src = c \o y \o t => rets[Len(rets)].err = StartErr(c, y)

---------------------------------------------------------------------------
(* C18: the input ends inside a construct that has a right delimiter.      *)

\* the error of matchingErr for the construct of the case c
UnclosedErr(c) ==
    [Offset |-> Len(c.pre), Line |-> LineAfter(c.pre), Column |-> ColAfter(c.pre),
     Filename |-> rets[Len(rets)].f.Name,
     Text |-> "reached %s without matching %s with %s",
     Args |-> <<<<"E", "O", "F">>, c.d.left, c.d.right>>]
\* the call that has returned parsed the input of the case c in a dialect
\* that has its construct
ReturnedCase(c) ==
    /\ Returned
    /\ rets[Len(rets)].src = c.src
    /\ c.d.ext => ~rets[Len(rets)].mode.PosixConformant

---------------------------------------------------------------------------
(* C19: a clause whose closing word is missing.                            *)

\* the error of stmtEnd for the clause of the case u
EndErr(u) ==
    [Offset |-> Len(u.a.pre), Line |-> LineAfter(u.a.pre), Column |-> ColAfter(u.a.pre),
     Filename |-> rets[Len(rets)].f.Name,
     Text |-> "%s statement must end with %q", Args |-> <<u.c.kw, u.c.end>>]
\* the call that has returned parsed the input of the case u
ReturnedUnended(u) == Returned /\ rets[Len(rets)].src = u.src

\* C19 as stated: when the body of an if, while, until, for or case is
\* complete and its closing word is missing, Parse fails with `<construct>
\* statement must end with "<kw>"` at the opening word of that construct,
\* wherever the construct is
C19_MissingEnd ==
    \A u \in UnendedCases : ReturnedUnended(u) => rets[Len(rets)].err = EndErr(u)

---------------------------------------------------------------------------
(* C20: an operator between two commands with no second command.          *)

\* the error of followErr for the operator of the case c
NoRightErr(c) ==
    LET before == c.a.pre \o <<"a", " ">>
    IN  [Offset |-> Len(before), Line |-> LineAfter(before), Column |-> ColAfter(before),
         Filename |-> rets[Len(rets)].f.Name,
         Text |-> "%s must be followed by %s", Args |-> <<c.op, aStatement>>]

\* C20 as stated: when `&&`, `||`, `|` or `|&` is not followed by a statement,
\* at the top level, in a block, in a subshell, in `$(...)` or in backquotes,
\* Parse fails with `<op> must be followed by a statement` at the operator,
\* so that no File returned without error has a BinaryCmd whose right
\* operand is an empty statement
C20_NoRightOperand ==
    \A c \in NoRightCases :
        (Returned /\ rets[Len(rets)].src = c.src) => rets[Len(rets)].err = NoRightErr(c)

---------------------------------------------------------------------------
(* C23: the state of the lexer and the count of buried heredocs around a   *)
(* nested construct.                                                       *)

\* the call on top of the stack returns in this step
Returns == calls # <<>> /\ Len(calls') = Len(calls) - 1
\* the methods that read a nested construct from its start to its end
Nesters ==
    {"wordPart", "paramExp", "subshell", "arithmExpCmd", "loop", "patLists", "testExpr",
     "testExprBase", "letClause", "doRedirect", "doHeredocs"}

\* C23: every call returns with p.quote and p.buriedHdocs as they were when
\* it was made, with or without an error, whatever it saved and set in
\* between; the one exception is arithmEnd, which restores what its caller
\* saved and handed to it.  Parse returns in the state noState with no
\* buried heredoc.
C23_ModeBalanced ==
    [][/\ (Returns /\ Top.fn # "arithmEnd") =>
              (p'.quote = Top.q0 /\ p'.buriedHdocs = Top.b0)
       /\ (Returns /\ Top.fn = "arithmEnd") =>
              (p'.quote = Top.old.quote /\ p'.buriedHdocs = Top.old.buriedHdocs)
       /\ (Returns /\ calls' = <<>>) => (p'.quote = "noState" /\ p'.buriedHdocs = 0)]_vars

\* `c <<E $(d)`, then the body: the heredoc was pending while `$(d)` was
\* read with one buried heredoc, and its body was read at the newline after
C23_Witness ==
    /\ Returned
    /\ rets[Len(rets)].src = <<"c", " ", "<", "<", "E", " ", "$", "(", "d", ")">> \o sHdocTail
    /\ rets[Len(rets)].err = NoErr
    /\ rets[Len(rets)].f.R[1].Hdoc # Nil
    /\ p.quote = "noState"
    /\ p.buriedHdocs = 0

---------------------------------------------------------------------------
(* C24: what couldBeArithm leaves of its scan.                             *)

\* a call of couldBeArithm is in progress
Scanning == \E i \in 1..Len(calls) : calls[i].fn = "couldBeArithm"

\* C24: couldBeArithm returns with p.tok, p.npos and the length of
\* p.f.Lines as they were when it was called, whatever it answers, and no
\* step of it or of the calls it makes changes p.err or the queue of the
\* pending heredocs
C24_PureLookahead ==
    [][/\ (Returns /\ Top.fn = "couldBeArithm") =>
              /\ p'.tok = Top.tok0
              /\ p'.npos = Top.npos0
              /\ Len(p'.f.Lines) = Top.lines0
       /\ Scanning =>
              /\ p'.err = p.err
              /\ p'.heredocs = p.heredocs
              /\ p'.hdArrs = p.hdArrs]_vars

\* couldBeArithm has answered no to wordPart after a scan that went over the
\* newline and the body of a heredoc that is still pending
C24_Witness ==
    /\ calls # <<>>
    /\ Top.fn = "wordPart" /\ Top.pc = 3
    /\ rv = FALSE
    /\ p.src = <<"c", " ", "<", "<", "E", " ", "$", "(", "(", "a", ")", "\n", "x", "\n", "E", "\n">>
    /\ p.tok = "dollDblParen" /\ p.npos = 9 /\ Len(p.f.Lines) = 1
    /\ p.pos > p.npos
    /\ p.heredocs.len = 1 /\ p.buriedHdocs = 1
    /\ p.err = NoErr

---------------------------------------------------------------------------
(* C25: the batch of heredocs that one call of doHeredocs drains.          *)

\* the redirects that were pending when the running call was made
Batch == {Top.batch0[i] : i \in 1..Len(Top.batch0)}

\* C25: a call of doHeredocs gives a body to each redirect that was pending
\* above the buried count when it was called, once, and to no other
\* redirect: a step of doHeredocs that sets the Hdoc of a redirect sets it
\* for a redirect of that batch that had none, and when the call returns
\* every redirect of the batch has its body
C25_BatchDrainedOnce ==
    [][(calls # <<>> /\ Top.fn = "doHeredocs") =>
           /\ \A r \in 1..Len(p.f.R) :
                  p'.f.R[r].Hdoc # p.f.R[r].Hdoc => (r \in Batch /\ p.f.R[r].Hdoc = Nil)
           /\ Returns => \A r \in Batch : p'.f.R[r].Hdoc # Nil]_vars

---------------------------------------------------------------------------
(* C26: what enters the queue of the pending heredocs.                     *)

\* the queue p.heredocs, buried entries included
queue(ps) ==
    IF ps.heredocs.arr = 0 THEN <<>>
    ELSE SubSeq(ps.hdArrs[ps.heredocs.arr], 1, ps.heredocs.len)

\* the step of doRedirect that follows the p.next() after the operator, for
\* a << or <<-
QueuesHdoc ==
    /\ calls # <<>>
    /\ Top.fn = "doRedirect" /\ Top.pc = 2
    /\ p.f.R[Top.r].Op \in HdocOps

---------------------------------------------------------------------------
(* C27: the stop word of a heredoc and the body it selects.                *)

\* a word as it is written, without its quoting: the backslashes that
\* escape a byte and the quotes are dropped
RECURSIVE Unquoted(_)
Unquoted(s) ==
    IF s = <<>> THEN <<>>
    ELSE IF s[1] = "\\" /\ Len(s) >= 2 THEN <<s[2]>> \o Unquoted(SubSeq(s, 3, Len(s)))
    ELSE IF s[1] \in {"\\", "'", "\""} THEN Unquoted(Tail(s))
    ELSE <<s[1]>> \o Unquoted(Tail(s))

\* the bytes of a word in the source
TextOf(src, w) == SubSeq(src, wordPos(w), wordEnd(w) - 1)

\* the line of src that starts at offset a, without its leading tabs when
\* tabs is set
RECURSIVE LineAt(_, _, _)
LineAt(src, a, tabs) ==
    IF a >= Len(src) \/ src[a + 1] = "\n" THEN <<>>
    ELSE IF tabs /\ src[a + 1] = "\t" THEN LineAt(src, a + 1, tabs)
    ELSE <<src[a + 1]>> \o LineAt(src, a + 1, FALSE)

\* the offset after the last byte of a heredoc body: a body that ends in a
\* literal ends where the value of the literal ends
BodyEnd(body) ==
    LET l == body.Parts[Len(body.Parts)]
    IN  IF l.t = "Lit" THEN l.ValuePos - 1 + Len(l.Value) ELSE partEnd(l) - 1

\* C27: in a File returned without error, a heredoc whose stop word has a
\* backslash, a single quote or a double quote anywhere in it has a body
\* that is one literal; one whose stop word has none, and whose body text
\* holds a $, has a body with an expansion in it; the body is followed by
\* the end of the input or by a line equal to the stop word without its
\* quoting, and no line that ends in the body equals it, leading tabs apart
\* for <<-
C27_StopWordQuoting ==
    ReturnedOk =>
        LET f == rets[Len(rets)].f
            src == rets[Len(rets)].src
        IN  \A r \in 1..Len(f.R) :
                (/\ f.R[r].Op \in HdocOps
                 /\ f.R[r].Word # Nil
                 /\ f.R[r].Hdoc # Nil
                 /\ f.R[r].Hdoc.Parts # <<>>) =>
                    LET w == TextOf(src, f.R[r].Word)
                        body == f.R[r].Hdoc
                        quoted == \E i \in 1..Len(w) : w[i] \in {"\\", "'", "\""}
                        tabs == f.R[r].Op = "dashHdoc"
                        from == wordPos(body) - 1
                        to == BodyEnd(body)
                    IN  /\ quoted => Len(body.Parts) = 1 /\ body.Parts[1].t = "Lit"
                        /\ (~quoted /\ \E i \in (from + 1)..to : src[i] = "$") =>
                               \E i \in 1..Len(body.Parts) : body.Parts[i].t # "Lit"
                        /\ to >= Len(src) \/ LineAt(src, to, tabs) = Unquoted(w)
                        /\ \A a \in from..(to - 1) :
                               (/\ a = from \/ src[a] = "\n"
                                /\ \E e \in (a + 1)..to : src[e] = "\n") =>
                                   LineAt(src, a, tabs) # Unquoted(w)

---------------------------------------------------------------------------
(* C28: the name of a parameter expansion.                                 *)

\* the error `parameter expansion requires a literal` at the position pos
NoNameErr(ps, pos) ==
    LET at == Position(ps.f.Lines, pos)
    IN  [Offset |-> at.Offset, Line |-> at.Line, Column |-> at.Column,
         Filename |-> ps.f.Name, Text |-> "parameter expansion requires a literal",
         Args |-> <<>>]

\* C28: when paramExp returns a ParamExp without a Param, with or without
\* the length prefix, the error of the parse is `parameter expansion
\* requires a literal` at the ${ ; so a ${...} of a parse without error has
\* its Param
C28_ParamRequired ==
    [][(Returns /\ Top.fn = "paramExp" /\ rv'.Param = Nil) =>
           p'.err = NoNameErr(p', rv'.Dollar)]_vars

---------------------------------------------------------------------------
(* C29: the operand of a prefix operator.                                  *)

\* the node x is the prefix operator u applied to the operand named v
IsPrefixOf(x, u, v) ==
    x.t = "UnaryArithm" /\ ~x.Post /\ TokStr(x.Op) = u /\ IsOperand(x.X, v)

\* C29: for a prefix operator u among + - ! ++ -- and a binary operator op,
\* $((ua op b)) parses without error as op(u(a), b): the prefix operator
\* takes the operand that follows it and nothing more
C29_PrefixBindsTightest ==
    Returned =>
        LET r == rets[Len(rets)]
        IN  \A u \in Prefixes, l \in UnaryLevels :
                r.src = PrefixThenOp(u, OpOf(l, 0)) =>
                    /\ r.err = NoErr
                    /\ IsOp(ArithmOf(r.f), OpOf(l, 0))
                    /\ IsPrefixOf(ArithmOf(r.f).X, u, Operands[1])
                    /\ IsOperand(ArithmOf(r.f).Y, Operands[2])

---------------------------------------------------------------------------
(* C30: reserved words in the arguments of a command.                      *)

\* callExpr is at the head of its loop, on the line of the command, with a
\* word that ends a statement list as the token
StopWordAsArg ==
    /\ calls # <<>>
    /\ Top.fn = "callExpr"
    /\ ~p.newLine
    /\ p.tok = "_LitWord"
    /\ p.val \in stopWords

\* the two calls of a run of ArgRuns for the case c have returned
ArgPair(c) ==
    /\ AllReturned
    /\ Len(rets) = 2
    /\ rets[1].src = c.pre \o c.w \o c.post
    /\ rets[2].src = c.pre \o Ordinary(c.w) \o c.post

\* the last argument of the command x
LastArg(x) == x.Args[Len(x.Args)].Parts[1].Value

\* C30: a word that ends a statement list, met by callExpr among the
\* arguments of a command, is added to the arguments as a literal and the
\* command goes on; the parse of a text with such a word as the last
\* argument of a command ends as the parse of the text with an ordinary
\* word in its place: the same error or none, the same number of statements;
\* `if foo then` fails with `"if <cond>" must be followed by "then"` at 1:1
C30_StopWordsInCommandPosition ==
    [][/\ StopWordAsArg =>
              /\ Len(calls') = Len(calls) + 1
              /\ calls'[Len(calls')].fn = "next"
              /\ calls'[Len(calls)].fn = "callExpr"
              /\ LastArg(calls'[Len(calls)]) = p.val
              /\ p'.err = p.err
       /\ \A c \in ArgCases :
              ArgPair(c)' =>
                  /\ rets'[1].err = rets'[2].err
                  /\ Len(rets'[1].f.Stmts) = Len(rets'[2].f.Stmts)
                  /\ (c.pre = <<"i", "f", " ", "f", "o", "o", " ">> =>
                          rets'[1].err = [Offset |-> 0, Line |-> 1, Column |-> 1,
                                          Filename |-> <<>>,
                                          Text |-> "%s must be followed by %s",
                                          Args |-> <<Quote(sIfCond), Quote(sThen)>>])
                  /\ (c.pre = sEcho =>
                          /\ rets'[1].err = NoErr
                          /\ LastArg(rets'[1].f.Stmts[1].Cmd) = c.w)]_vars

\* `if foo then` and `if foo xxxx` have both been parsed, with the error that
\* no then follows the condition, and then was taken as an argument of foo
C30_Witness ==
    /\ ArgPair(ArgCase(<<"i", "f", " ", "f", "o", "o", " ">>, sThen, <<>>))
    /\ rets[1].err.Text = "%s must be followed by %s"
    /\ rets[1].err.Args = <<Quote(sIfCond), Quote(sThen)>>
    /\ rets[1].err = rets[2].err

---------------------------------------------------------------------------
\* a call of Fprint has returned as the i-th result of the run
Fprinted(i) == i \in 1..Len(rets) /\ "out" \in DOMAIN rets[i]

\* C21: when a Write of the sink fails, the Write that failed is the last
\* one that Fprint makes: its next step is its return, the error it returns
\* is the error of that Write, unchanged, and the sink holds what it held
\* before that Write
C21_WriteErrSurfaced ==
    [][(Running("Fprint") /\ Top.err # Nil)
          => /\ Top.err = errBadWriter(Top.pc)
             /\ calls' = <<>>
             /\ Fprinted(Len(rets))'
             /\ rets'[Len(rets)].werr = Top.err
             /\ rets'[Len(rets)].out = Top.out
             /\ rets'[Len(rets)].writes = Top.pc]_vars

\* Fprint has returned the error of its third Write with foo and the
\* newline in the sink, and bar never written
C21_Witness ==
    /\ calls = <<>>
    /\ Fprinted(1)
    /\ rets[1].src = <<"f", "o", "o", ";", " ", "b", "a", "r">>
    /\ rets[1].werr = errBadWriter(3)
    /\ rets[1].writes = 3
    /\ rets[1].out = <<"f", "o", "o", "\n">>

---------------------------------------------------------------------------
\* the i-th result of a run of the printer test is a text that the sink took
\* whole
FprintedOk(i) == Fprinted(i) /\ rets[i].werr = Nil

====
